---------------------------- MODULE Spec2Model ----------------------------
(***************************************************************************)
(* cloum: named Kubernetes cluster definitions kept in one JSON file       *)
(* (add / import / remove) and the per-provider connect workflow that      *)
(* shells out to gcloud, aws, az and kubectl.                              *)
(***************************************************************************)
EXTENDS Naturals, Integers, Sequences, FiniteSets, TLC

VARIABLES
    file,       \* the configuration file ~/.config/cloum/clusters.json
    last,       \* the last store command run: its input and its outcome
    installed,  \* the executables Bun.spawn can start
    cname,      \* connect: the <name> argument
    cluster,    \* connect: the record findCluster returned
    cpc,        \* connect: position in connectCommand / the adapter
    clog,       \* connect: subprocesses run and status lines printed, in order
    cres,       \* connect: values the adapter keeps from earlier steps
    cerr,       \* connect: the error that reached the dispatcher ("" = none)
    env,        \* process.env: AWS_PROFILE of the invoking shell ("" = unset)
    cmd,        \* status / registry / clean: the command and its options
    mpc,        \* status / registry / clean: position in the command function
    task,       \* status / registry / clean: the provider operations in flight
    elog,       \* status / registry / clean: spawns, exits and lines, in order
    merr,       \* status / registry / clean: the error the command threw
    input,      \* classifier / version compare / dispatcher: what it is given
    output      \* classifier / version compare / dispatcher: what it gives

vars ==
    <<file, last, installed, cname, cluster, cpc, clog, cres, cerr, env,
      cmd, mpc, task, elog, merr, input, output>>
storeVars == <<file, last>>
connectVars == <<installed, cname, cluster, cpc, clog, cres, cerr, env>>
fanVars == <<cmd, mpc, task, elog, merr>>
pureVars == <<input, output>>

(***************************************************************************)
(* Bounds of the model.                                                    *)
(***************************************************************************)
MaxStore == 3       \* add / import are not run on a store of this many records
MaxImport == 2      \* entries in an imported file

Names == {"n1", "n2"}
Providers == {"gcp", "aws", "azure"}

(***************************************************************************)
(* JSON objects.  An object in memory is a function from its keys to its   *)
(* values; on disk it is the list of its "key": value pairs.               *)
(***************************************************************************)
EmptyObj == [k \in {} |-> ""]

KeyOrder ==
    <<"name", "provider", "region", "clusterName", "project", "resourceGroup",
      "account", "profile", "roleArn", "subscription">>

Has(o, k) == k \in DOMAIN o

\* a JS string-or-undefined used as a condition: defined and not ""
Truthy(o, k) == Has(o, k) /\ o[k] # ""

Merge(a, b) == [k \in (DOMAIN a) \cup (DOMAIN b) |-> IF k \in DOMAIN b THEN b[k] ELSE a[k]]

\* ...(cond && { key: value }) in an object literal
SpreadIf(o, k) == IF Truthy(o, k) THEN k :> o[k] ELSE EmptyObj

\* JSON.stringify of one record: its defined properties, in insertion order
StringifyObj(o) ==
    LET ks == SelectSeq(KeyOrder, LAMBDA k : k \in DOMAIN o)
    IN  [i \in 1..Len(ks) |-> <<ks[i], o[ks[i]]>>]

\* JSON.parse of one record: a later pair of the same key wins
ParseObj(pairs) ==
    [k \in {pairs[i][1] : i \in DOMAIN pairs} |->
        pairs[CHOOSE i \in DOMAIN pairs :
                 /\ pairs[i][1] = k
                 /\ \A j \in DOMAIN pairs : j > i => pairs[j][1] # k][2]]

StringifyClusters(cs) == [i \in 1..Len(cs) |-> StringifyObj(cs[i])]
ParseClusters(text) == [i \in 1..Len(text) |-> ParseObj(text[i])]

(***************************************************************************)
(* Config store (config/loader.ts).  The file is absent, or holds the      *)
(* text of { clusters: [...] }, with or without the trailing newline.      *)
(***************************************************************************)
NoFile == [exists |-> FALSE, clusters |-> <<>>, nl |-> FALSE]

EnsureConfigFile(f) ==
    IF f.exists THEN f ELSE [exists |-> TRUE, clusters |-> <<>>, nl |-> FALSE]

\* the list loadClusters returns; the file it leaves is EnsureConfigFile(f)
LoadClusters(f) == ParseClusters(EnsureConfigFile(f).clusters)

SaveClusters(f, cs) ==
    [exists |-> TRUE, clusters |-> StringifyClusters(cs), nl |-> TRUE]

NamesOf(cs) == {cs[i]["name"] : i \in DOMAIN cs}

\* the names of the available clusters, as the not-found error lists them
AvailableNames(cs) == [i \in 1..Len(cs) |-> cs[i]["name"]]

(***************************************************************************)
(* add (commands/add.ts)                                                   *)
(***************************************************************************)
OptionKeys ==
    {"project", "account", "profile", "roleArn", "resourceGroup", "subscription"}

SampleValue ==
    [k \in OptionKeys \cup {"region", "clusterName"} |->
        CASE k = "region" -> "us-east1"
          [] k = "clusterName" -> "prod"
          [] k = "project" -> "my-proj"
          [] k = "account" -> "me@corp.io"
          [] k = "profile" -> "dev"
          [] k = "roleArn" -> "arn:aws:iam::1:role/eks"
          [] k = "resourceGroup" -> "rg1"
          [] k = "subscription" -> "sub1"]

\* the option flags given with each name: every combination with the first
\* name, one combination per provider with the second
OptionSets(n) ==
    IF n = "n1" THEN SUBSET OptionKeys
    ELSE {{"project", "account"}, {"profile", "roleArn"}, {"resourceGroup"}}

\* the AddOptions main() can pass: name, region, clusterName always strings
AddInputs ==
    UNION {{Merge([name |-> n, region |-> SampleValue["region"],
                   clusterName |-> SampleValue["clusterName"]],
                  [k \in ks |-> SampleValue[k]]) : ks \in OptionSets(n)} : n \in Names}

\* requireOption throws
RequiredMissing(provider, opts) ==
    \/ provider = "gcp" /\ ~Truthy(opts, "project")
    \/ provider = "azure" /\ ~Truthy(opts, "resourceGroup")

BuildClusterDropsOptional(provider, opts) ==
    Merge([name |-> opts["name"], provider |-> provider,
           region |-> opts["region"], clusterName |-> opts["clusterName"]],
          CASE provider = "gcp" -> "project" :> opts["project"]
            [] provider = "aws" -> EmptyObj
            [] provider = "azure" -> "resourceGroup" :> opts["resourceGroup"])

BuildCluster(provider, opts) ==
    LET base == [name |-> opts["name"], provider |-> provider,
                 region |-> opts["region"], clusterName |-> opts["clusterName"]]
    IN  CASE provider = "gcp" ->
               Merge(Merge(base, "project" :> opts["project"]),
                     SpreadIf(opts, "account"))
          [] provider = "aws" ->
               Merge(Merge(base, SpreadIf(opts, "profile")),
                     SpreadIf(opts, "roleArn"))
          [] provider = "azure" ->
               Merge(Merge(base, "resourceGroup" :> opts["resourceGroup"]),
                     SpreadIf(opts, "subscription"))

NameTakenNever(cs, name) == FALSE

\* clusters.some((c) => c.name === opts.name)
NameTaken(cs, name) == \E i \in DOMAIN cs : cs[i]["name"] = name

\* what addCommand leaves: the file, and the error thrown ("" = none)
AddResult(f, provider, opts) ==
    LET clusters == LoadClusters(f)
    IN  IF NameTaken(clusters, opts["name"])
        THEN [file |-> EnsureConfigFile(f), err |-> "already exists"]
        ELSE IF RequiredMissing(provider, opts)
        THEN [file |-> EnsureConfigFile(f), err |-> "required option"]
        ELSE [file |-> SaveClusters(EnsureConfigFile(f),
                                    Append(clusters, BuildCluster(provider, opts))),
              err |-> ""]

(***************************************************************************)
(* remove (commands/remove.ts)                                             *)
(***************************************************************************)
\* a removal that also drops what follows the record
FilterOutTruncates(cs, name) ==
    SubSeq(cs, 1, (CHOOSE i \in DOMAIN cs :
                      /\ cs[i]["name"] = name
                      /\ \A j \in 1..(i - 1) : cs[j]["name"] # name) - 1)

\* clusters.filter((c) => c.name !== name)
FilterOut(cs, name) == SelectSeq(cs, LAMBDA c : c["name"] # name)

RemoveResultSavesAnyway(f, name) ==
    LET clusters == LoadClusters(f)
    IN  [file |-> SaveClusters(EnsureConfigFile(f), FilterOut(clusters, name)),
         err |-> IF NameTaken(clusters, name) THEN "" ELSE "not found",
         available |-> AvailableNames(clusters)]

RemoveResult(f, name) ==
    LET clusters == LoadClusters(f)
    IN  IF ~(\E i \in DOMAIN clusters : clusters[i]["name"] = name)
        THEN [file |-> EnsureConfigFile(f), err |-> "not found",
              available |-> AvailableNames(clusters)]
        ELSE [file |-> SaveClusters(EnsureConfigFile(f), FilterOut(clusters, name)),
              err |-> "", available |-> <<>>]

(***************************************************************************)
(* import (commands/import.ts).  Values of the imported JSON are tagged    *)
(* with their JSON type, since validateCluster tests typeof.               *)
(***************************************************************************)
JStr(s) == [t |-> "string", v |-> s]
JNum == [t |-> "number", v |-> "7"]

\* !x || typeof x !== "string"
BadString(e, k) == ~Has(e, k) \/ e[k].t # "string" \/ e[k].v = ""

\* x && typeof x === "string"
GoodString(e, k) == Has(e, k) /\ e[k].t = "string" /\ e[k].v # ""

\* the error validateCluster throws for an entry ("" = none)
ValidationError(e) ==
    IF BadString(e, "name") THEN "invalid name"
    ELSE IF BadString(e, "provider") \/ e["provider"].v \notin Providers
    THEN "invalid provider"
    ELSE IF BadString(e, "region") THEN "invalid region"
    ELSE IF BadString(e, "clusterName") THEN "invalid clusterName"
    ELSE IF e["provider"].v = "gcp" /\ BadString(e, "project") THEN "missing project"
    ELSE IF e["provider"].v = "azure" /\ BadString(e, "resourceGroup")
    THEN "missing resourceGroup"
    ELSE ""

\* the record validateCluster returns for an entry that passes
ValidateCluster(e) ==
    LET base == [name |-> e["name"].v, provider |-> e["provider"].v,
                 region |-> e["region"].v, clusterName |-> e["clusterName"].v]
    IN  CASE e["provider"].v = "gcp" ->
               LET c == Merge(base, "project" :> e["project"].v)
               IN  IF GoodString(e, "account")
                   THEN Merge(c, "account" :> e["account"].v)
                   ELSE c
          [] e["provider"].v = "aws" ->
               IF GoodString(e, "profile")
               THEN Merge(base, "profile" :> e["profile"].v)
               ELSE IF GoodString(e, "roleArn")
               THEN Merge(base, "roleArn" :> e["roleArn"].v)
               ELSE base
          [] e["provider"].v = "azure" ->
               LET c == Merge(base, "resourceGroup" :> e["resourceGroup"].v)
               IN  IF GoodString(e, "subscription")
                   THEN Merge(c, "subscription" :> e["subscription"].v)
                   ELSE c

\* index of the first entry validateCluster rejects (0 = none)
FirstInvalid(entries) ==
    IF \E i \in DOMAIN entries : ValidationError(entries[i]) # ""
    THEN CHOOSE i \in DOMAIN entries :
            /\ ValidationError(entries[i]) # ""
            /\ \A j \in 1..(i - 1) : ValidationError(entries[j]) = ""
    ELSE 0

RECURSIVE MergeLoopForgetsAdded(_, _, _, _, _)
MergeLoopForgetsAdded(news, i, names, toAdd, skipped) ==
    IF i > Len(news) THEN [toAdd |-> toAdd, skipped |-> skipped]
    ELSE IF news[i]["name"] \in names
    THEN MergeLoopForgetsAdded(news, i + 1, names, toAdd, Append(skipped, news[i]["name"]))
    ELSE MergeLoopForgetsAdded(news, i + 1, names, Append(toAdd, news[i]), skipped)

RECURSIVE MergeLoopDropsSkipped(_, _, _, _, _)
MergeLoopDropsSkipped(news, i, names, toAdd, skipped) ==
    IF i > Len(news) THEN [toAdd |-> toAdd, skipped |-> skipped]
    ELSE IF news[i]["name"] \in names
    THEN MergeLoopDropsSkipped(news, i + 1, names, toAdd,
                               IF skipped = <<>> THEN <<news[i]["name"]>> ELSE skipped)
    ELSE MergeLoopDropsSkipped(news, i + 1, names \cup {news[i]["name"]},
                               Append(toAdd, news[i]), skipped)

\* for (const cluster of newClusters) { skip or add, remembering the name }
RECURSIVE MergeLoop(_, _, _, _, _)
MergeLoop(news, i, names, toAdd, skipped) ==
    IF i > Len(news) THEN [toAdd |-> toAdd, skipped |-> skipped]
    ELSE IF news[i]["name"] \in names
    THEN MergeLoop(news, i + 1, names, toAdd, Append(skipped, news[i]["name"]))
    ELSE MergeLoop(news, i + 1, names \cup {news[i]["name"]},
                   Append(toAdd, news[i]), skipped)

\* an import that saves each entry as soon as it has passed validation
ImportResultSavesAsItGoes(f, doc) ==
    IF doc.kind # "doc"
    THEN [file |-> f, err |-> doc.kind, toAdd |-> <<>>, skipped |-> <<>>]
    ELSE LET bad == FirstInvalid(doc.entries)
             good == IF bad = 0 THEN doc.entries ELSE SubSeq(doc.entries, 1, bad - 1)
             news == [i \in 1..Len(good) |-> ValidateCluster(good[i])]
             existing == LoadClusters(f)
             m == MergeLoop(news, 1, NamesOf(existing), <<>>, <<>>)
         IN  [file |-> SaveClusters(EnsureConfigFile(f), existing \o m.toAdd),
              err |-> IF bad = 0 THEN "" ELSE ValidationError(doc.entries[bad]),
              toAdd |-> m.toAdd, skipped |-> m.skipped]

\* what importCommand leaves: the file, the error thrown ("" = none), and
\* the records added and names skipped that the summary prints
ImportResult(f, doc) ==
    IF doc.kind # "doc"
    THEN [file |-> f, err |-> doc.kind, toAdd |-> <<>>, skipped |-> <<>>]
    ELSE IF FirstInvalid(doc.entries) # 0
    THEN [file |-> f, err |-> ValidationError(doc.entries[FirstInvalid(doc.entries)]),
          toAdd |-> <<>>, skipped |-> <<>>]
    ELSE LET news == [i \in 1..Len(doc.entries) |-> ValidateCluster(doc.entries[i])]
             existing == LoadClusters(f)
             m == MergeLoop(news, 1, NamesOf(existing), <<>>, <<>>)
         IN  [file |-> SaveClusters(EnsureConfigFile(f), existing \o m.toAdd),
              err |-> "", toAdd |-> m.toAdd, skipped |-> m.skipped]

(***************************************************************************)
(* The files import is run on.                                             *)
(***************************************************************************)
OptionalOf(p) ==
    CASE p = "gcp" -> {"account"}
      [] p = "aws" -> {"profile", "roleArn"}
      [] p = "azure" -> {"subscription"}

RequiredOf(p) ==
    CASE p = "gcp" -> {"project"}
      [] p = "aws" -> {}
      [] p = "azure" -> {"resourceGroup"}

\* a well-formed entry: the common fields, the required one, some optional ones
Entry(n, p, opt) ==
    Merge([name |-> JStr(n), provider |-> JStr(p),
           region |-> JStr(SampleValue["region"]),
           clusterName |-> JStr(SampleValue["clusterName"])],
          [k \in RequiredOf(p) \cup opt |-> JStr(SampleValue[k])])

\* every shape of record under the first name, one shape per provider under
\* the second
ValidEntries ==
    {Entry("n1", p, opt) : p \in Providers, opt \in SUBSET {"account", "profile", "roleArn", "subscription"}}
    \cup {Entry("n2", "gcp", {"account"}), Entry("n2", "aws", {"profile", "roleArn"}),
          Entry("n2", "azure", {})}

Without(e, k) == [x \in (DOMAIN e) \ {k} |-> e[x]]

\* entries with one defect each
InvalidEntries ==
    LET g == Entry("n1", "gcp", {"account"})
        a == Entry("n2", "aws", {"profile"})
        z == Entry("n1", "azure", {})
    IN  {Without(g, "name"), Merge(a, "name" :> JNum),
         Without(a, "provider"), Merge(g, "provider" :> JNum),
         Merge(z, "provider" :> JStr("oci")),
         Without(g, "region"), Merge(a, "region" :> JNum),
         Without(z, "clusterName"), Merge(g, "clusterName" :> JStr("")),
         Without(g, "project"), Without(z, "resourceGroup")}

ImportEntries ==
    {e \in ValidEntries :
        DOMAIN e \subseteq {"name", "provider", "region", "clusterName"}
                              \cup RequiredOf(e["provider"].v)
                              \cup OptionalOf(e["provider"].v)}
    \cup InvalidEntries

SeqsUpTo(S, n) == UNION {[1..k -> S] : k \in 0..n}

\* the files given to import.  validateCluster throws at the first defective
\* entry and what follows it is never read, so a defective entry comes last
ImportDocs ==
    {[kind |-> k, entries |-> <<>>] :
        k \in {"file not found", "invalid JSON", "not an object", "no clusters array"}}
    \cup {[kind |-> "doc", entries |-> es] :
            es \in {x \in SeqsUpTo(ImportEntries, MaxImport) :
                      \A i \in DOMAIN x : x[i] \in InvalidEntries => i = Len(x)}}

(***************************************************************************)
(* The store commands as steps.                                            *)
(***************************************************************************)
NoCommand ==
    [op |-> "none", before |-> NoFile, err |-> "", provider |-> "", name |-> "",
     opts |-> EmptyObj, doc |-> [kind |-> "", entries |-> <<>>],
     skipped |-> <<>>, available |-> <<>>]

AddCommand(provider, opts) ==
    /\ last.op = "none"
    /\ Len(LoadClusters(file)) < MaxStore
    /\ LET r == AddResult(file, provider, opts)
       IN  /\ file' = r.file
           /\ last' = [NoCommand EXCEPT !.op = "add", !.before = file, !.err = r.err,
                                        !.provider = provider, !.name = opts["name"],
                                        !.opts = opts]
    /\ UNCHANGED <<connectVars, fanVars, pureVars>>

RemoveCommand(name) ==
    /\ last.op = "none"
    /\ LET r == RemoveResult(file, name)
       IN  /\ file' = r.file
           /\ last' = [NoCommand EXCEPT !.op = "remove", !.before = file, !.err = r.err,
                                        !.name = name, !.available = r.available]
    /\ UNCHANGED <<connectVars, fanVars, pureVars>>

ImportCommand(doc) ==
    /\ last.op = "none"
    /\ Len(LoadClusters(file)) < MaxStore
    /\ LET r == ImportResult(file, doc)
       IN  /\ file' = r.file
           /\ last' = [NoCommand EXCEPT !.op = "import", !.before = file, !.err = r.err,
                                        !.doc = doc, !.skipped = r.skipped]
    /\ UNCHANGED <<connectVars, fanVars, pureVars>>

\* listCommand: loadClusters, which creates a missing file, then the table
ListCommand ==
    /\ last.op = "none"
    /\ file' = EnsureConfigFile(file)
    /\ last' = [NoCommand EXCEPT !.op = "list", !.before = file]
    /\ UNCHANGED <<connectVars, fanVars, pureVars>>

\* the process ends once its command has returned or thrown: nothing but the
\* file outlives it, and the next invocation starts from the file alone
Exit ==
    /\ last.op # "none"
    /\ last' = NoCommand
    /\ UNCHANGED file
    /\ UNCHANGED <<connectVars, fanVars, pureVars>>

ConnectIdle ==
    /\ installed = {}
    /\ cname = ""
    /\ cluster = EmptyObj
    /\ cpc = "idle"
    /\ clog = <<>>
    /\ cres = EmptyObj
    /\ cerr = ""
    /\ env = ""

\* nothing is being classified, compared or dispatched
PureIdle ==
    /\ input = EmptyObj
    /\ output = EmptyObj

\* no status / registry / clean command is running
FanIdle ==
    /\ cmd = EmptyObj
    /\ mpc = "idle"
    /\ task = EmptyObj
    /\ elog = <<>>
    /\ merr = ""

InitStore ==
    /\ file = NoFile
    /\ last = NoCommand
    /\ ConnectIdle
    /\ FanIdle
    /\ PureIdle

NextStore ==
    \/ \E p \in Providers, o \in AddInputs : AddCommand(p, o)
    \/ \E n \in Names : RemoveCommand(n)
    \/ \E d \in ImportDocs : ImportCommand(d)
    \/ ListCommand
    \/ Exit

SpecStore == InitStore /\ [][NextStore]_vars

(***************************************************************************)
(* Captured output (utils/shell.ts).                                       *)
(***************************************************************************)
\* captured stdout as its pieces: words, blanks, carriage returns and line
\* ends; the last three are the white space String.trim removes
Blank(t) == t \in {" ", "\n", "\r"}

RECURSIVE TrimStart(_)
TrimStart(out) ==
    IF out # <<>> /\ Blank(Head(out)) THEN TrimStart(Tail(out)) ELSE out

RECURSIVE TrimEnd(_)
TrimEnd(out) ==
    IF out # <<>> /\ Blank(out[Len(out)])
    THEN TrimEnd(SubSeq(out, 1, Len(out) - 1))
    ELSE out

RECURSIVE Concat(_)
Concat(out) == IF out = <<>> THEN "" ELSE Head(out) \o Concat(Tail(out))

\* stdout.trim()
Trim(out) == Concat(TrimEnd(TrimStart(out)))

(***************************************************************************)
(* Error classifier (parseGcpError, parseAwsError, parseAzureError and     *)
(* extractFirstLine in utils/colors.ts).  A text is the list of its words, *)
(* "\n" standing for a line break; a phrase occurs in a text when its      *)
(* words occur there one after the other.                                  *)
(***************************************************************************)

\* the words of the known failure phrases, with their upper-case forms
UpperCase ==
    ("a" :> "A")
    @@ ("access" :> "ACCESS")
    @@ ("associated" :> "ASSOCIATED")
    @@ ("auth" :> "AUTH")
    @@ ("authorization" :> "AUTHORIZATION")
    @@ ("az" :> "AZ")
    @@ ("cluster" :> "CLUSTER")
    @@ ("credentials" :> "CREDENTIALS")
    @@ ("current" :> "CURRENT")
    @@ ("denied" :> "DENIED")
    @@ ("does" :> "DOES")
    @@ ("error" :> "ERROR")
    @@ ("exist" :> "EXIST")
    @@ ("expired" :> "EXPIRED")
    @@ ("failed" :> "FAILED")
    @@ ("found" :> "FOUND")
    @@ ("has" :> "HAS")
    @@ ("insufficient" :> "INSUFFICIENT")
    @@ ("invalid" :> "INVALID")
    @@ ("login" :> "LOGIN")
    @@ ("not" :> "NOT")
    @@ ("permission" :> "PERMISSION")
    @@ ("permissions" :> "PERMISSIONS")
    @@ ("please" :> "PLEASE")
    @@ ("problem" :> "PROBLEM")
    @@ ("profile" :> "PROFILE")
    @@ ("project" :> "PROJECT")
    @@ ("provider" :> "PROVIDER")
    @@ ("reauthentication" :> "REAUTHENTICATION")
    @@ ("refreshing" :> "REFRESHING")
    @@ ("region" :> "REGION")
    @@ ("run" :> "RUN")
    @@ ("session" :> "SESSION")
    @@ ("sso" :> "SSO")
    @@ ("subscription" :> "SUBSCRIPTION")
    @@ ("the" :> "THE")
    @@ ("there" :> "THERE")
    @@ ("this" :> "THIS")
    @@ ("token" :> "TOKEN")
    @@ ("tokens" :> "TOKENS")
    @@ ("unauthorized" :> "UNAUTHORIZED")
    @@ ("validating" :> "VALIDATING")
    @@ ("was" :> "WAS")
    @@ ("with" :> "WITH")
    @@ ("your" :> "YOUR")
    @@ ("zone" :> "ZONE")

\* words written with capitals that are not all upper case
MixedCase == ("The" :> "the") @@ ("SSO" :> "sso") @@ ("Error:" :> "error:")

\* String.prototype.toLowerCase, word by word
ToLowerCaseWord(w) ==
    IF w \in DOMAIN MixedCase THEN MixedCase[w]
    ELSE IF \E l \in DOMAIN UpperCase : UpperCase[l] = w
    THEN CHOOSE l \in DOMAIN UpperCase : UpperCase[l] = w
    ELSE w

ToLowerCaseKeepsCase(text) == text

\* stderr.toLowerCase()
ToLowerCase(text) == [i \in DOMAIN text |-> ToLowerCaseWord(text[i])]

\* lower.includes(phrase)
Includes(lower, phrase) ==
    \E i \in 1..(Len(lower) - Len(phrase) + 1) :
        \A k \in DOMAIN phrase : lower[i + k - 1] = phrase[k]

RECURSIVE JoinWords(_)
JoinWords(ws) ==
    IF ws = <<>> THEN ""
    ELSE IF Len(ws) = 1 THEN ws[1]
    ELSE ws[1] \o " " \o JoinWords(Tail(ws))

RECURSIVE UpToLineBreak(_)
UpToLineBreak(text) ==
    IF text = <<>> \/ Head(text) = "\n" THEN <<>>
    ELSE <<Head(text)>> \o UpToLineBreak(Tail(text))

\* extractFirstLine without the trim: the first line of the text as given
ExtractFirstLineUntrimmed(text) ==
    LET first == JoinWords(UpToLineBreak(text))
    IN  IF first = "" THEN "Unknown error" ELSE first

\* extractFirstLine: stderr.trim().split("\n")[0] || "Unknown error"
ExtractFirstLine(text) ==
    LET first == JoinWords(UpToLineBreak(TrimEnd(TrimStart(text))))
    IN  IF first = "" THEN "Unknown error" ELSE first

Classified(message, hint, retry) ==
    [message |-> message, hint |-> hint, shouldRetry |-> retry]

\* the default branch: the first line of the text, no hint
Unclassified(text) == [message |-> ExtractFirstLine(text)]

\* parseGcpError
parseGcpError(stderr) ==
    LET lower == ToLowerCase(stderr)
    IN  IF \/ Includes(lower, <<"reauthentication", "failed">>)
           \/ Includes(lower, <<"there", "was", "a", "problem", "refreshing", "your",
                                "current", "auth", "tokens">>)
           \/ Includes(lower, <<"invalid", "credentials">>)
           \/ Includes(lower, <<"token", "expired">>)
        THEN Classified("GCP authentication failed or expired",
                        "Run: gcloud auth login\nOr for service account: gcloud auth activate-service-account --key-file=KEY_FILE",
                        TRUE)
        ELSE IF \/ Includes(lower, <<"permission", "denied">>)
                \/ Includes(lower, <<"insufficient", "permissions">>)
        THEN [message |-> "Insufficient GCP permissions",
              hint |-> "Your account lacks required permissions. Ask your admin to add appropriate roles (e.g., 'roles/container.clusterViewer' for read, 'roles/container.clusterAdmin' for full access)."]
        ELSE IF /\ Includes(lower, <<"not", "found">>)
                /\ Includes(lower, <<"project">>) \/ Includes(lower, <<"cluster">>)
        THEN [message |-> "Project or cluster not found",
              hint |-> "Verify the project ID and cluster name are correct. Run: gcloud projects list"]
        ELSE IF /\ Includes(lower, <<"not", "found">>)
                /\ Includes(lower, <<"region">>) \/ Includes(lower, <<"zone">>)
        THEN [message |-> "Region or zone not found",
              hint |-> "Verify the region/zone exists. Run: gcloud compute regions list"]
        ELSE Unclassified(stderr)

\* parseAwsError
parseAwsError(stderr) ==
    LET lower == ToLowerCase(stderr)
    IN  IF \/ Includes(lower, <<"the", "sso", "session", "associated", "with", "this",
                                "profile", "has", "expired">>)
           \/ Includes(lower, <<"sso", "session", "has", "expired">>)
           \/ Includes(lower, <<"error", "validating", "provider">>)
        THEN Classified("AWS SSO session expired",
                        "Run: aws sso login --profile PROFILE_NAME", TRUE)
        ELSE IF Includes(lower, <<"profile">>) /\ Includes(lower, <<"does", "not", "exist">>)
        THEN [message |-> "AWS profile not found",
              hint |-> "Check your AWS config: ~/.aws/config"]
        ELSE IF Includes(lower, <<"access", "denied">>) \/ Includes(lower, <<"unauthorized">>)
        THEN [message |-> "AWS access denied",
              hint |-> "Verify your IAM permissions include eks:DescribeCluster and eks:AccessKubernetesApi"]
        ELSE IF Includes(lower, <<"not", "found">>) /\ Includes(lower, <<"cluster">>)
        THEN [message |-> "EKS cluster not found",
              hint |-> "Verify cluster name and region. Run: aws eks list-clusters --region REGION"]
        ELSE Unclassified(stderr)

\* parseAzureError
parseAzureError(stderr) ==
    LET lower == ToLowerCase(stderr)
    IN  IF Includes(lower, <<"please", "run">>) /\ Includes(lower, <<"az", "login">>)
        THEN Classified("Azure not authenticated", "Run: az login", TRUE)
        ELSE IF /\ Includes(lower, <<"subscription">>)
                /\ Includes(lower, <<"not", "found">>) \/ Includes(lower, <<"not", "exist">>)
        THEN [message |-> "Azure subscription not found",
              hint |-> "Verify your subscription. Run: az account list"]
        ELSE IF \/ Includes(lower, <<"permission", "denied">>)
                \/ Includes(lower, <<"authorization", "failed">>)
        THEN [message |-> "Azure permission denied",
              hint |-> "Your account lacks required Azure RBAC permissions. Ask admin to add 'Azure Kubernetes Service Cluster User Role'."]
        ELSE IF Includes(lower, <<"not", "found">>) /\ Includes(lower, <<"cluster">>)
        THEN [message |-> "AKS cluster not found",
              hint |-> "Verify cluster name and resource group. Run: az aks list"]
        ELSE Unclassified(stderr)

ParseError(p, stderr) ==
    CASE p = "gcp" -> parseGcpError(stderr)
      [] p = "aws" -> parseAwsError(stderr)
      [] p = "azure" -> parseAzureError(stderr)

(***************************************************************************)
(* connect (commands/connect.ts, providers/gcp.ts, aws.ts, azure.ts).      *)
(* Every await of a subprocess is one step; its exit code and output are   *)
(* whatever the CLI gives.  Bun.spawn throws when the executable cannot be *)
(* started, and nothing in connect catches it.                             *)
(***************************************************************************)
Tools == {"gcloud", "aws", "az", "kubectl"}
ExitCodes == {0, 1}

\* captured stdout, as its lines
AccountOutputs == {<<SampleValue["account"]>>, <<"other@corp.io">>, <<>>}
ProjectOutputs == {<<SampleValue["project"]>>, <<"other-proj">>}
NodeOutputs == {<<>>, <<"node-1 Ready">>, <<"node-1 Ready", "node-2 Ready">>}
SubscriptionOutputs == {<<SampleValue["subscription"]>>, <<"other-sub">>}

\* AWS_PROFILE in the environment cloum is started from
AmbientProfiles == {"", SampleValue["profile"], "other"}

\* stdout.trim() of an output of at most one line
TrimLine(out) == IF out = <<>> THEN "" ELSE out[1]

\* stdout.trim().split("\n").filter(Boolean).length
NodeCount(out) == Len(SelectSeq(out, LAMBDA l : l # ""))

RunEvent(what, code) == [k |-> "run", what |-> what, code |-> code]
PrintEvent(what) == [k |-> "print", what |-> what, code |-> 0]

SuccessLine == "Successfully connected to cluster"

\* the stores connect is run on: no file yet, one cluster of any shape, or
\* two clusters
ConnectFiles ==
    {NoFile} \cup
    {AddResult(NoFile, p, o).file :
        p \in Providers, o \in {x \in AddInputs : x["name"] = "n1"}} \cup
    {SaveClusters(NoFile,
                  <<BuildCluster("aws", [name |-> "n2", region |-> SampleValue["region"],
                                         clusterName |-> SampleValue["clusterName"]]),
                    BuildCluster("azure", [name |-> "n1", region |-> SampleValue["region"],
                                           clusterName |-> SampleValue["clusterName"],
                                           resourceGroup |-> SampleValue["resourceGroup"]])>>)}

\* the names typed after connect: the names of records, and one in capitals
TypedNames == Names \cup {"N1"}

\* a lookup that took "N1" for "n1"
MatchesAnyCase(c, name) == c["name"] = name \/ (name = "N1" /\ c["name"] = "n1")

\* c.name === name
Matches(c, name) == c["name"] = name

\* names.join(", ")
RECURSIVE JoinNames(_)
JoinNames(names) ==
    IF names = <<>> THEN ""
    ELSE IF Len(names) = 1 THEN names[1]
    ELSE names[1] \o ", " \o JoinNames(Tail(names))

\* the error of findCluster
NotFound(name, clusters) ==
    LET names == JoinNames(AvailableNames(clusters))
    IN  "Cluster \"" \o name \o "\" not found. Available: "
            \o (IF names = "" THEN "(none configured)" ELSE names)

\* the executable each step spawns
ToolAt(pc) ==
    CASE pc \in {"gcp_token", "gcp_login", "gcp_current", "gcp_setAccount",
                 "gcp_newToken", "gcp_relogin", "gcp_setProject", "gcp_creds",
                 "gcp_finalAccount", "gcp_finalProject"} -> "gcloud"
      [] pc \in {"aws_identity", "aws_login", "aws_creds", "aws_finalIdentity"} -> "aws"
      [] pc \in {"az_account", "az_login", "az_setSub", "az_aksShow", "az_creds",
                 "az_finalSub", "az_finalTenant"} -> "az"
      [] pc \in {"nodes", "ctx"} -> "kubectl"
      [] OTHER -> ""

AwsFirstStepSkipsIdentity(c) == "aws_creds"

\* connectAws: if (cluster.profile) { verify the identity } ... update-kubeconfig
AwsFirstStep(c) == IF Truthy(c, "profile") THEN "aws_identity" ELSE "aws_creds"

\* the first await of the adapter connectCommand dispatches to
FirstStep(c) ==
    CASE c["provider"] = "gcp" -> "gcp_token"
      [] c["provider"] = "aws" -> AwsFirstStep(c)
      [] c["provider"] = "azure" -> "az_account"

\* connectAzure after the authentication check
AzAfterAuth(c) == IF Truthy(c, "subscription") THEN "az_setSub" ELSE "az_aksShow"

\* a step that throws: the error reaches main's catch
Throw(msg, events) ==
    /\ cpc' = "failed"
    /\ cerr' = msg
    /\ clog' = clog \o events
    /\ UNCHANGED <<cres, cluster>>

\* a step that goes on to the next await
Goto(pc, events) ==
    /\ cpc' = pc
    /\ clog' = clog \o events
    /\ UNCHANGED <<cerr, cluster>>

Frame == UNCHANGED <<file, last, installed, cname, env, fanVars, pureVars>>

\* connectCommand up to the adapter's first await: findCluster, then the
\* header lines
ConnectStart ==
    /\ cpc = "start"
    /\ file' = EnsureConfigFile(file)
    /\ LET clusters == LoadClusters(file)
       IN  IF \E i \in DOMAIN clusters : Matches(clusters[i], cname)
           THEN LET match == clusters[CHOOSE i \in DOMAIN clusters :
                                 /\ Matches(clusters[i], cname)
                                 /\ \A j \in 1..(i - 1) : ~Matches(clusters[j], cname)]
                IN  /\ cluster' = match
                    /\ cpc' = FirstStep(match)
                    /\ clog' = <<PrintEvent("Connecting to cluster")>>
                    /\ UNCHANGED <<cerr, cres>>
           ELSE /\ cpc' = "failed"
                /\ cerr' = NotFound(cname, clusters)
                /\ UNCHANGED <<cluster, clog, cres>>
    /\ UNCHANGED <<last, installed, cname, env, fanVars, pureVars>>

\* Bun.spawn cannot start the executable of the step
SpawnFails ==
    /\ ToolAt(cpc) # ""
    /\ ToolAt(cpc) \notin installed
    /\ Throw("Executable not found in $PATH", <<>>)
    /\ Frame

CanRun == ToolAt(cpc) \in installed

(* ------------------------------- GCP ---------------------------------- *)
GcpToken ==
    /\ cpc = "gcp_token" /\ CanRun
    /\ \E code \in ExitCodes :
          LET ev == RunEvent("gcloud auth print-access-token", code)
          IN  IF code # 0
              THEN Goto("gcp_login", <<ev, PrintEvent("launching gcloud auth login")>>)
              ELSE IF Truthy(cluster, "account")
              THEN Goto("gcp_current", <<ev>>)
              ELSE Goto("gcp_setProject", <<ev>>)
    /\ UNCHANGED cres
    /\ Frame

\* ensureAuthenticated without the return after the login: it goes on to
\* the account check and may launch the login a second time
GcpLoginFallsThrough ==
    /\ cpc = "gcp_login" /\ CanRun
    /\ \E code \in ExitCodes :
          Goto(IF Truthy(cluster, "account") THEN "gcp_relogin" ELSE "gcp_setProject",
               <<RunEvent(IF Truthy(cluster, "account")
                          THEN "gcloud auth login --account" ELSE "gcloud auth login",
                          code)>>)
    /\ UNCHANGED cres
    /\ Frame

GcpLogin ==
    /\ cpc = "gcp_login" /\ CanRun
    /\ \E code \in ExitCodes :
          Goto("gcp_setProject",
               <<RunEvent(IF Truthy(cluster, "account")
                          THEN "gcloud auth login --account" ELSE "gcloud auth login",
                          code)>>)
    /\ UNCHANGED cres
    /\ Frame

GcpCurrent ==
    /\ cpc = "gcp_current" /\ CanRun
    /\ \E code \in ExitCodes, out \in AccountOutputs :
          LET ev == RunEvent("gcloud config get-value account", code)
          IN  /\ IF TrimLine(out) # cluster["account"]
                 THEN Goto("gcp_setAccount", <<ev, PrintEvent("Switching gcloud account")>>)
                 ELSE Goto("gcp_setProject", <<ev>>)
              /\ cres' = Merge(cres, "current" :> TrimLine(out))
    /\ Frame

\* ensureAuthenticated without the check of the exit code of config set
\* account
GcpSetAccountIgnoresExit ==
    /\ cpc = "gcp_setAccount" /\ CanRun
    /\ \E code \in ExitCodes :
          Goto("gcp_newToken", <<RunEvent("gcloud config set account", code)>>)
          /\ UNCHANGED cres
    /\ Frame

GcpSetAccount ==
    /\ cpc = "gcp_setAccount" /\ CanRun
    /\ \E code \in ExitCodes :
          LET ev == RunEvent("gcloud config set account", code)
          IN  IF code # 0
              THEN Throw("Failed to switch gcloud account", <<ev>>)
              ELSE Goto("gcp_newToken", <<ev>>) /\ UNCHANGED cres
    /\ Frame

GcpNewToken ==
    /\ cpc = "gcp_newToken" /\ CanRun
    /\ \E code \in ExitCodes :
          LET ev == RunEvent("gcloud auth print-access-token", code)
          IN  IF code # 0
              THEN Goto("gcp_relogin", <<ev, PrintEvent("launching gcloud auth login")>>)
              ELSE Goto("gcp_setProject", <<ev>>)
    /\ UNCHANGED cres
    /\ Frame

GcpRelogin ==
    /\ cpc = "gcp_relogin" /\ CanRun
    /\ \E code \in ExitCodes :
          Goto("gcp_setProject", <<RunEvent("gcloud auth login --account", code)>>)
    /\ UNCHANGED cres
    /\ Frame

GcpSetProject ==
    /\ cpc = "gcp_setProject" /\ CanRun
    /\ \E code \in ExitCodes :
          LET ev == RunEvent("gcloud config set project", code)
          IN  IF code # 0
              THEN Throw("Failed to set project", <<ev>>)
              ELSE Goto("gcp_creds", <<ev, PrintEvent("Fetching kubeconfig credentials")>>)
                   /\ UNCHANGED cres
    /\ Frame

GcpCreds ==
    /\ cpc = "gcp_creds" /\ CanRun
    /\ \E code \in ExitCodes :
          LET ev == RunEvent("gcloud container clusters get-credentials", code)
          IN  IF code # 0
              THEN Throw("gcloud get-credentials failed (exit " \o ToString(code) \o ")",
                         <<ev>>)
              ELSE Goto("gcp_finalAccount",
                        <<ev, PrintEvent("Verifying authentication alignment")>>)
                   /\ UNCHANGED cres
    /\ Frame

GcpFinalAccount ==
    /\ cpc = "gcp_finalAccount" /\ CanRun
    /\ \E code \in ExitCodes, out \in AccountOutputs :
          /\ Goto("gcp_finalProject", <<RunEvent("gcloud config get-value account", code)>>)
          /\ cres' = Merge(cres, "finalAccount" :> TrimLine(out))
    /\ Frame

GcpFinalProject ==
    /\ cpc = "gcp_finalProject" /\ CanRun
    /\ \E code \in ExitCodes, out \in ProjectOutputs :
          LET accountOk == ~Truthy(cluster, "account")
                           \/ cres["finalAccount"] = cluster["account"]
              projectOk == TrimLine(out) = cluster["project"]
          IN  /\ Goto("nodes",
                      <<RunEvent("gcloud config get-value project", code),
                        PrintEvent(IF accountOk /\ projectOk
                                   THEN "Authentication properly aligned"
                                   ELSE "Authentication may not be fully aligned")>>)
              /\ cres' = Merge(cres, "finalProject" :> TrimLine(out))
    /\ Frame

(* ------------------------------- AWS ---------------------------------- *)
AwsIdentity ==
    /\ cpc = "aws_identity" /\ CanRun
    /\ \E code \in ExitCodes :
          LET ev == RunEvent("aws sts get-caller-identity", code)
          IN  IF code # 0
              THEN Goto("aws_login", <<ev, PrintEvent("launching aws sso login")>>)
              ELSE Goto("aws_creds", <<ev, PrintEvent("AWS account verified")>>)
    /\ UNCHANGED cres
    /\ Frame

AwsLogin ==
    /\ cpc = "aws_login" /\ CanRun
    /\ \E code \in ExitCodes :
          Goto("aws_creds", <<RunEvent("aws sso login --profile", code)>>)
    /\ UNCHANGED cres
    /\ Frame

\* the stderr runCommand and runCommandWithEnv return: "", the stream being
\* inherited
InheritedStderr == <<>>

AwsCreds ==
    /\ cpc = "aws_creds" /\ CanRun
    /\ \E code \in ExitCodes :
          LET ev == RunEvent(IF Truthy(cluster, "roleArn")
                             THEN "aws eks update-kubeconfig --role-arn"
                             ELSE "aws eks update-kubeconfig", code)
          IN  IF code # 0
              THEN Throw("aws eks update-kubeconfig failed: "
                             \o parseAwsError(InheritedStderr).message, <<ev>>)
              ELSE Goto("aws_finalIdentity",
                        <<ev, PrintEvent("Verifying authentication alignment")>>)
                   /\ UNCHANGED cres
    /\ Frame

AwsFinalIdentity ==
    /\ cpc = "aws_finalIdentity" /\ CanRun
    /\ \E code \in ExitCodes :
          Goto("nodes",
               <<RunEvent("aws sts get-caller-identity", code),
                 PrintEvent(IF code = 0 THEN "Authentication properly aligned"
                            ELSE "Could not verify auth alignment")>>)
    /\ UNCHANGED cres
    /\ Frame

(* ------------------------------ Azure --------------------------------- *)
AzAccount ==
    /\ cpc = "az_account" /\ CanRun
    /\ \E code \in ExitCodes :
          LET ev == RunEvent("az account show --query name", code)
          IN  IF code # 0
              THEN Goto("az_login", <<ev, PrintEvent("launching az login")>>)
              ELSE Goto(AzAfterAuth(cluster), <<ev, PrintEvent("Azure subscription")>>)
    /\ UNCHANGED cres
    /\ Frame

AzLogin ==
    /\ cpc = "az_login" /\ CanRun
    /\ \E code \in ExitCodes :
          LET ev == RunEvent("az login", code)
          IN  IF code # 0
              THEN Throw("Azure login failed", <<ev>>)
              ELSE Goto(AzAfterAuth(cluster), <<ev>>) /\ UNCHANGED cres
    /\ Frame

AzSetSub ==
    /\ cpc = "az_setSub" /\ CanRun
    /\ \E code \in ExitCodes :
          LET ev == RunEvent("az account set --subscription", code)
          IN  IF code # 0
              THEN Throw("Failed to set subscription", <<ev>>)
              ELSE Goto("az_aksShow", <<ev>>) /\ UNCHANGED cres
    /\ Frame

\* the error connectAzure throws when the existence check fails
AksNotFound(c) ==
    "AKS cluster \"" \o c["clusterName"] \o "\" not found in resource group \""
        \o c["resourceGroup"] \o "\".\nRun: az aks list --resource-group "
        \o c["resourceGroup"] \o " --query \"[].name\" --output tsv"

AksShowFailedNever(code) == FALSE

\* if (clusterCheck.exitCode !== 0)
AksShowFailed(code) == code # 0

AzAksShow ==
    /\ cpc = "az_aksShow" /\ CanRun
    /\ \E code \in ExitCodes :
          LET ev == RunEvent("az aks show", code)
          IN  IF AksShowFailed(code)
              THEN Throw(AksNotFound(cluster), <<ev>>)
              ELSE Goto("az_creds", <<ev, PrintEvent("AKS cluster verified"),
                                      PrintEvent("Fetching kubeconfig credentials")>>)
                   /\ UNCHANGED cres
    /\ Frame

AzCreds ==
    /\ cpc = "az_creds" /\ CanRun
    /\ \E code \in ExitCodes :
          LET ev == RunEvent("az aks get-credentials", code)
          IN  IF code # 0
              THEN Throw("az aks get-credentials failed (exit " \o ToString(code) \o ")",
                         <<ev>>)
              ELSE Goto("az_finalSub",
                        <<ev, PrintEvent("Verifying authentication alignment")>>)
                   /\ UNCHANGED cres
    /\ Frame

AzFinalSub ==
    /\ cpc = "az_finalSub" /\ CanRun
    /\ \E code \in ExitCodes, out \in SubscriptionOutputs :
          /\ Goto("az_finalTenant", <<RunEvent("az account show --query name", code)>>)
          /\ cres' = Merge(cres, ("finalSubExit" :> ToString(code))
                                    @@ ("finalSub" :> TrimLine(out)))
    /\ Frame

AzFinalTenant ==
    /\ cpc = "az_finalTenant" /\ CanRun
    /\ \E code \in ExitCodes :
          Goto("nodes",
               <<RunEvent("az account show --query tenantId", code),
                 PrintEvent(IF cres["finalSubExit"] = "0"
                            THEN "Authentication properly aligned"
                            ELSE "Could not verify auth alignment")>>)
    /\ UNCHANGED cres
    /\ Frame

(* ---------------------- the steps all adapters end with --------------- *)
Nodes ==
    /\ cpc = "nodes" /\ CanRun
    /\ \E code \in ExitCodes, out \in NodeOutputs :
          Goto("ctx",
               <<RunEvent("kubectl get nodes --no-headers", code),
                 PrintEvent(IF code = 0 /\ NodeCount(out) > 0
                            THEN "Cluster reachable"
                            ELSE "Cluster not immediately reachable")>>)
    /\ UNCHANGED cres
    /\ Frame

\* the last await of the adapter; connectCommand then prints the success line
Ctx ==
    /\ cpc = "ctx" /\ CanRun
    /\ \E code \in ExitCodes :
          Goto("done",
               <<RunEvent("kubectl config current-context", code),
                 PrintEvent("Final Status"), PrintEvent(SuccessLine)>>)
    /\ UNCHANGED cres
    /\ Frame

InitConnect ==
    /\ file \in ConnectFiles
    /\ last = NoCommand
    /\ installed \in SUBSET Tools
    /\ cname \in TypedNames
    /\ cluster = EmptyObj
    /\ cpc = "start"
    /\ clog = <<>>
    /\ cres = EmptyObj
    /\ cerr = ""
    /\ env \in AmbientProfiles
    /\ FanIdle
    /\ PureIdle

NextConnect ==
    \/ ConnectStart
    \/ SpawnFails
    \/ GcpToken \/ GcpLogin \/ GcpCurrent \/ GcpSetAccount \/ GcpNewToken
    \/ GcpRelogin \/ GcpSetProject \/ GcpCreds \/ GcpFinalAccount \/ GcpFinalProject
    \/ AwsIdentity \/ AwsLogin \/ AwsCreds \/ AwsFinalIdentity
    \/ AzAccount \/ AzLogin \/ AzSetSub \/ AzAksShow \/ AzCreds
    \/ AzFinalSub \/ AzFinalTenant
    \/ Nodes \/ Ctx

SpecConnect == InitConnect /\ [][NextConnect]_vars

\* connect when every subprocess it waits for exits: the handler is then
\* resumed, so a step that can be taken is taken
SpecConnectLive == InitConnect /\ [][NextConnect]_vars /\ WF_vars(NextConnect)

(***************************************************************************)
(* status (commands/status.ts; statusGcp, statusAws, statusAzure).         *)
(* A call of an async function runs up to its first await before the       *)
(* caller goes on, so the calls inside Promise.all([...]) each spawn their *)
(* first subprocess, in order, before any exit is handled.  The exits then *)
(* arrive in any order; each one resumes the function that awaits it.      *)
(***************************************************************************)
ProviderOrder == <<"gcp", "aws", "azure">>

CliOf(p) ==
    CASE p = "gcp" -> "gcloud"
      [] p = "aws" -> "aws"
      [] p = "azure" -> "az"

IdentityOutputs == {<<>>, <<" ", "\n">>, <<"me@corp.io", "\n">>}
DetailOutputs == {<<>>, <<"my-proj", "\n">>}
ContextOutputs == {<<>>, <<"gke_prod", "\n">>}

SpawnEvent(p, what) == [k |-> "spawn", p |-> p, what |-> what, code |-> 0]
SpawnFailure(p, what) == [k |-> "nospawn", p |-> p, what |-> what, code |-> 0]
ExitEvent(p, what, code) == [k |-> "exit", p |-> p, what |-> what, code |-> code]
ReturnEvent(p) == [k |-> "return", p |-> p, what |-> "", code |-> 0]
LineEvent(what) == [k |-> "print", p |-> "", what |-> what, code |-> 0]

ExecutableNotFound == "Executable not found in $PATH"

\* a provider operation: where it waits, what its first probe gave, and
\* the value it returned
IdleTask == [pc |-> "idle", code |-> 0, out |-> <<>>, res |-> EmptyObj]
Awaiting(pc) == [IdleTask EXCEPT !.pc = pc]
Returned(t, res) == [t EXCEPT !.pc = "returned", !.res = res]
IdleTasks == [p \in Providers |-> IdleTask]

StatusQuery(p) ==
    CASE p = "gcp" -> "gcloud auth list"
      [] p = "aws" -> "aws sts get-caller-identity --query Arn"
      [] p = "azure" -> "az account show --query user.name"

DetailQuery(p) ==
    CASE p = "gcp" -> "gcloud config get-value project"
      [] p = "azure" -> "az account show --query name"
      [] OTHER -> ""

\* the catch branch of the status operation
NotInstalled(p) ==
    [provider |-> p, isAuthenticated |-> FALSE,
     details |-> CASE p = "gcp" -> "gcloud not installed"
                   [] p = "aws" -> "aws CLI not installed"
                   [] p = "azure" -> "az CLI not installed"]

Unauthenticated(p) == [provider |-> p, isAuthenticated |-> FALSE]

Authenticated(p, identity, details) ==
    IF details = ""
    THEN [provider |-> p, isAuthenticated |-> TRUE, identity |-> identity]
    ELSE [provider |-> p, isAuthenticated |-> TRUE, identity |-> identity,
          details |-> details]

IdentityUnusableIgnoresOutput(code, out) == code # 0

\* if (result.exitCode !== 0 || !result.stdout.trim())
IdentityUnusable(code, out) == code # 0 \/ Trim(out) = ""

\* details of an authenticated status, "" when undefined
StatusDetails(p, code, out, profile) ==
    CASE p = "gcp" ->
           IF code = 0 /\ Trim(out) # "" THEN "project: " \o Trim(out) ELSE ""
      [] p = "aws" -> IF profile # "" THEN "profile: " \o profile ELSE ""
      [] p = "azure" -> IF code = 0 THEN "subscription: " \o Trim(out) ELSE ""

\* the call statusGcp() / statusAws() / statusAzure(): ev is what it does up
\* to its first await, late what it does when that await resumes without a
\* subprocess to wait for.  Bun.spawn throws inside runCommandSilent, an
\* async function, so the catch branch runs only after the caller has made
\* the calls that follow.
StatusCall(p, inst) ==
    IF CliOf(p) \in inst
    THEN [t |-> Awaiting("probe"), ev |-> <<SpawnEvent(p, StatusQuery(p))>>, late |-> <<>>]
    ELSE [t |-> Returned(IdleTask, NotInstalled(p)),
          ev |-> <<SpawnFailure(p, StatusQuery(p))>>,
          late |-> <<ReturnEvent(p)>>]

\* the calls made one after the other; the awaits that need no subprocess
\* resume, in the order of the calls, once all the calls are made
RECURSIVE StatusCalls(_, _, _, _)
StatusCalls(order, i, inst, acc) ==
    IF i > Len(order) THEN [task |-> acc.task, log |-> acc.log \o acc.late, late |-> <<>>]
    ELSE LET c == StatusCall(order[i], inst)
         IN  StatusCalls(order, i + 1, inst,
                         [task |-> [acc.task EXCEPT ![order[i]] = c.t],
                          log |-> acc.log \o c.ev,
                          late |-> acc.late \o c.late])

StatusStartedOneAtATime(order, inst) ==
    StatusCalls(<<order[1]>>, 1, inst, [task |-> IdleTasks, log |-> <<>>, late |-> <<>>])

\* Promise.all([statusGcp(), statusAws(), statusAzure()]) up to its await
StatusStarted(order, inst) ==
    StatusCalls(order, 1, inst, [task |-> IdleTasks, log |-> <<>>, late |-> <<>>])

\* formatStatus
FormatStatus(s) ==
    IF s.isAuthenticated
    THEN s.provider \o " authenticated"
           \o (IF Has(s, "identity") /\ s.identity # "" THEN " - " \o s.identity ELSE "")
           \o (IF Has(s, "details") /\ s.details # "" THEN " (" \o s.details \o ")" ELSE "")
    ELSE s.provider \o " not authenticated"

FanFrame ==
    UNCHANGED <<file, last, installed, cname, cluster, cpc, clog, cres, cerr, env, cmd,
                pureVars>>

\* statusCommand up to the await of Promise.all
StatusBegin ==
    /\ cmd = [name |-> "status"]
    /\ mpc = "start"
    /\ LET s == StatusStarted(ProviderOrder, installed)
       IN  /\ task' = s.task
           /\ elog' = <<LineEvent("Cloud Provider Authentication Status")>> \o s.log
    /\ mpc' = "join"
    /\ UNCHANGED merr
    /\ FanFrame

\* the identity query of a provider has exited
StatusProbeExit(p) ==
    /\ cmd = [name |-> "status"]
    /\ task[p].pc = "probe"
    /\ \E code \in ExitCodes, out \in IdentityOutputs :
          LET ev == ExitEvent(p, StatusQuery(p), code)
          IN  IF IdentityUnusable(code, out)
              THEN /\ task' = [task EXCEPT ![p] =
                                 Returned([@ EXCEPT !.code = code, !.out = out],
                                          Unauthenticated(p))]
                   /\ elog' = elog \o <<ev, ReturnEvent(p)>>
              ELSE IF DetailQuery(p) = ""
              THEN /\ task' = [task EXCEPT ![p] =
                                 Returned([@ EXCEPT !.code = code, !.out = out],
                                          Authenticated(p, Trim(out),
                                                        StatusDetails(p, 0, <<>>, env)))]
                   /\ elog' = elog \o <<ev, ReturnEvent(p)>>
              ELSE /\ task' = [task EXCEPT ![p] =
                                 [@ EXCEPT !.pc = "detail", !.code = code, !.out = out]]
                   /\ elog' = elog \o <<ev, SpawnEvent(p, DetailQuery(p))>>
    /\ UNCHANGED <<mpc, merr>>
    /\ FanFrame

\* the second query of statusGcp / statusAzure has exited
StatusDetailExit(p) ==
    /\ cmd = [name |-> "status"]
    /\ task[p].pc = "detail"
    /\ \E code \in ExitCodes, out \in DetailOutputs :
          /\ task' = [task EXCEPT ![p] =
                        Returned(@, Authenticated(p, Trim(@.out),
                                                  StatusDetails(p, code, out, env)))]
          /\ elog' = elog \o <<ExitEvent(p, DetailQuery(p), code), ReturnEvent(p)>>
    /\ UNCHANGED <<mpc, merr>>
    /\ FanFrame

\* the three queries of kubectlStatus, in the order of their calls
KubectlQueries ==
    <<"kubectl config current-context", "kubectl config view namespace",
      "kubectl config view cluster">>

KubectlQuerySet == {KubectlQueries[i] : i \in DOMAIN KubectlQueries}

\* Promise.all has resolved: the provider lines, then kubectlStatus up to
\* its own Promise.all of three kubectl queries.  Each of the three calls of
\* runCommandSilent reaches its Bun.spawn, also when kubectl is missing and
\* each spawn throws; Promise.all then rejects with the first error.
StatusJoin ==
    /\ cmd = [name |-> "status"]
    /\ mpc = "join"
    /\ \A p \in Providers : task[p].pc = "returned"
    /\ LET lines == <<LineEvent("Cloud Providers:")>>
                      \o [i \in 1..3 |-> LineEvent(FormatStatus(task[ProviderOrder[i]].res))]
       IN  IF "kubectl" \in installed
           THEN /\ elog' = elog \o lines
                             \o [i \in 1..3 |-> SpawnEvent("", KubectlQueries[i])]
                /\ task' = task @@ [q \in KubectlQuerySet |-> Awaiting("exit")]
                /\ mpc' = "kubectl"
                /\ UNCHANGED merr
           ELSE /\ elog' = elog \o lines
                             \o [i \in 1..3 |-> SpawnFailure("", KubectlQueries[i])]
                /\ mpc' = "failed"
                /\ merr' = ExecutableNotFound
                /\ UNCHANGED task
    /\ FanFrame

\* kubectlStatus after its Promise.all has resolved, given the exit code and
\* the output of the current-context query
KubectlJoin(code, out) ==
    IF code # 0 \/ Trim(out) = ""
    THEN [ev |-> <<LineEvent("Kubernetes:"), LineEvent("No active context")>>,
          mpc |-> "done"]
    ELSE [ev |-> <<LineEvent("Kubernetes:"), LineEvent("Context : " \o Trim(out)),
                   SpawnEvent("", "kubectl get nodes --no-headers")>>,
          mpc |-> "knodes"]

\* one of the three kubectl queries has exited; they exit in any order, and
\* kubectlStatus goes on when the last of them has
KubectlExit(q) ==
    /\ cmd = [name |-> "status"]
    /\ mpc = "kubectl"
    /\ task[q].pc = "exit"
    /\ \E code \in ExitCodes,
          out \in (IF q = KubectlQueries[1] THEN ContextOutputs ELSE {<<>>}) :
          LET tk == [task EXCEPT ![q] = [@ EXCEPT !.pc = "exited", !.code = code,
                                                   !.out = out]]
              ev == ExitEvent("", q, code)
          IN  /\ task' = tk
              /\ IF \A r \in KubectlQuerySet : tk[r].pc = "exited"
                 THEN LET j == KubectlJoin(tk[KubectlQueries[1]].code,
                                           tk[KubectlQueries[1]].out)
                      IN  /\ elog' = elog \o <<ev>> \o j.ev
                          /\ mpc' = j.mpc
                 ELSE /\ elog' = elog \o <<ev>>
                      /\ UNCHANGED mpc
    /\ UNCHANGED merr
    /\ FanFrame

\* the reachability probe of kubectlStatus has exited
KubectlNodes ==
    /\ cmd = [name |-> "status"]
    /\ mpc = "knodes"
    /\ \E code \in ExitCodes, out \in NodeOutputs :
          elog' = elog \o <<ExitEvent("", "kubectl get nodes --no-headers", code),
                            LineEvent(IF code = 0 /\ NodeCount(out) > 0
                                      THEN "Reachable" ELSE "Not reachable")>>
    /\ mpc' = "done"
    /\ UNCHANGED <<task, merr>>
    /\ FanFrame

\* the installations status is run on: everything, or one CLI missing
StatusInstalls == {Tools} \cup {Tools \ {t} : t \in Tools}

InitStatus ==
    /\ file = NoFile
    /\ last = NoCommand
    /\ installed \in StatusInstalls
    /\ cname = ""
    /\ cluster = EmptyObj
    /\ cpc = "idle"
    /\ clog = <<>>
    /\ cres = EmptyObj
    /\ cerr = ""
    /\ env \in {"", SampleValue["profile"]}
    /\ cmd = [name |-> "status"]
    /\ mpc = "start"
    /\ task = IdleTasks
    /\ elog = <<>>
    /\ merr = ""
    /\ PureIdle

NextStatus ==
    \/ StatusBegin
    \/ \E p \in Providers : StatusProbeExit(p)
    \/ \E p \in Providers : StatusDetailExit(p)
    \/ StatusJoin
    \/ \E q \in KubectlQuerySet : KubectlExit(q)
    \/ KubectlNodes

SpecStatus == InitStatus /\ [][NextStatus]_vars

(***************************************************************************)
(* registry (commands/registry.ts; registryGcp, registryAws,               *)
(* registryAzure, listRegistriesGcp, listRegistriesAzure).                 *)
(***************************************************************************)
RegistryTools == {"gcloud", "aws", "az", "docker"}

RegistryOptionKeys == {"region", "project", "profile", "registry"}

RegistrySample ==
    [k \in RegistryOptionKeys |->
        CASE k = "region" -> "us-east1"
          [] k = "project" -> "my-proj"
          [] k = "profile" -> "dev"
          [] k = "registry" -> "myacr"]

\* text a silent subprocess leaves on stderr when it fails
SampleStderr == "Unable to locate credentials"

\* the awaits of the registry operations: the subprocess each one waits for
RegistrySteps ==
    {"gcp_docker", "gcp_project", "gcp_list", "aws_token", "aws_id", "aws_docker",
     "az_list", "az_login"}

StepCommand(pc) ==
    CASE pc = "gcp_docker" -> "gcloud auth configure-docker"
      [] pc = "gcp_project" -> "gcloud config get-value project"
      [] pc = "gcp_list" -> "gcloud artifacts repositories list"
      [] pc = "aws_token" -> "aws ecr get-login-password"
      [] pc = "aws_id" -> "aws sts get-caller-identity --query Account"
      [] pc = "aws_docker" -> "docker login --username AWS --password-stdin"
      [] pc = "az_list" -> "az acr list"
      [] pc = "az_login" -> "az acr login"

StepTool(pc) ==
    CASE pc \in {"gcp_docker", "gcp_project", "gcp_list"} -> "gcloud"
      [] pc \in {"aws_token", "aws_id"} -> "aws"
      [] pc = "aws_docker" -> "docker"
      [] pc \in {"az_list", "az_login"} -> "az"

\* the line printed right before the subprocess of a step is spawned
StepAnnounce(pc) ==
    CASE pc = "gcp_docker" -> <<LineEvent("Configuring Docker")>>
      [] pc = "gcp_list" -> <<LineEvent("Listing repositories in project")>>
      [] pc = "aws_token" -> <<LineEvent("Fetching ECR login token")>>
      [] pc = "aws_docker" -> <<LineEvent("Logging Docker into ECR")>>
      [] pc = "az_list" -> <<LineEvent("Listing Azure Container Registries")>>
      [] pc = "az_login" -> <<LineEvent("Logging Docker into ACR")>>
      [] OTHER -> <<>>

\* the error a step throws when its subprocess exits nonzero; stderr is
\* empty where the subprocess ran with inherited streams
StepError(pc, code) ==
    CASE pc = "gcp_docker" -> "Registry login failed:\n"
      [] pc = "gcp_project" -> "--project and --region are required for GCP registry login"
      [] pc = "gcp_list" -> "Failed to list repositories: "
      [] pc = "aws_token" -> "Failed to get ECR token: " \o SampleStderr
      [] pc = "aws_id" -> "Failed to resolve AWS account ID: " \o SampleStderr
      [] pc = "aws_docker" -> "Docker login to ECR failed (exit " \o ToString(code) \o ")"
      [] pc = "az_list" -> "Failed to list ACR registries: "
      [] pc = "az_login" -> "ACR login failed (exit " \o ToString(code) \o ")"

\* the await that follows a step whose subprocess succeeded ("" = none)
StepNext(pc) ==
    CASE pc = "gcp_project" -> "gcp_list"
      [] pc = "aws_token" -> "aws_id"
      [] pc = "aws_id" -> "aws_docker"
      [] OTHER -> ""

\* what the operation prints and returns after its last step
StepDone(pc) ==
    CASE pc = "gcp_docker" -> [ev |-> <<LineEvent("Authenticated to Artifact Registry")>>,
                               ok |-> TRUE]
      [] pc = "gcp_list" -> [ev |-> <<LineEvent("Use --project <id> --region <region> to login.")>>,
                             ok |-> FALSE]
      [] pc = "aws_docker" -> [ev |-> <<LineEvent("Authenticated to ECR")>>, ok |-> TRUE]
      [] pc = "az_list" -> [ev |-> <<LineEvent("Use --registry <name> to login to a specific registry.")>>,
                            ok |-> FALSE]
      [] pc = "az_login" -> [ev |-> <<LineEvent("Authenticated to ACR")>>, ok |-> TRUE]

AllMode(c) == c.provider = "all" \/ c.all

\* the operation of provider p runs inside the try / catch of loginGcp,
\* loginAws or loginAzure
Wrapped(c, p) == AllMode(c) \/ p = "azure"

\* an error thrown at step pc of provider p: caught by the login function,
\* or thrown on to registryCommand
Fail(c, p, pc, msg) ==
    IF Wrapped(c, p)
    THEN [t |-> Returned(IdleTask, [ok |-> FALSE]),
          ev |-> <<LineEvent(IF pc = "az_list"
                             THEN "Could not list registries (az not authenticated?)"
                             ELSE "Failed: " \o msg),
                   ReturnEvent(p)>>]
    ELSE [t |-> [IdleTask EXCEPT !.pc = "threw", !.res = [threw |-> msg]],
          ev |-> <<>>]

\* run on to the await of step pc: announce it and spawn its subprocess.
\* ev is what happens up to the await.  When Bun.spawn throws (inside
\* runCommand, an async function) the error travels up through the awaits:
\* late holds what follows, turn by turn of the promise jobs - the await of
\* the operation resumes, then the catch of the login function prints, then
\* its result is seen.
Enter(c, p, pc, inst) ==
    IF StepTool(pc) \in inst
    THEN [t |-> Awaiting(pc),
          ev |-> StepAnnounce(pc) \o <<SpawnEvent(p, StepCommand(pc))>>,
          late |-> <<>>]
    ELSE LET f == Fail(c, p, pc, ExecutableNotFound)
         IN  [t |-> f.t,
              ev |-> StepAnnounce(pc) \o <<SpawnFailure(p, StepCommand(pc))>>,
              late |-> IF f.ev = <<>> THEN <<>>
                       ELSE << <<>>, <<f.ev[1]>>, <<f.ev[2]>> >>]

\* the login function returns false before any await; its result is seen at
\* the next turn
Skipped(p, why) ==
    [t |-> Returned(IdleTask, [ok |-> FALSE]),
     ev |-> <<LineEvent("Skipped - requires " \o why)>>,
     late |-> << <<ReturnEvent(p)>> >>]

Prefixed(line, r) == [t |-> r.t, ev |-> <<LineEvent(line)>> \o r.ev, late |-> r.late]

\* the events of turn k
Turn(late, k) == IF k \in DOMAIN late THEN late[k] ELSE <<>>

\* a call nothing else runs beside: its events in the order they happen
InTurn(r) ==
    [t |-> r.t, ev |-> r.ev \o Turn(r.late, 1) \o Turn(r.late, 2) \o Turn(r.late, 3)]

\* loginAzure without its registry check: the login is attempted even when
\* no registry name was given
LoginCallAlwaysLogsIn(c, p, inst) ==
    CASE p = "gcp" ->
           Prefixed("GCP Artifact Registry",
                    IF ~Has(c.opts, "region") \/ ~Has(c.opts, "project")
                    THEN Skipped(p, "--region and --project")
                    ELSE Enter(c, p, "gcp_docker", inst))
      [] p = "aws" ->
           Prefixed("AWS ECR",
                    IF ~Has(c.opts, "region")
                    THEN Skipped(p, "--region")
                    ELSE Enter(c, p, "aws_token", inst))
      [] p = "azure" -> Prefixed("Azure ACR", Enter(c, p, "az_login", inst))

\* loginGcp(opts) / loginAws(opts) / loginAzure(opts) up to the first await
LoginCall(c, p, inst) ==
    CASE p = "gcp" ->
           Prefixed("GCP Artifact Registry",
                    IF ~Has(c.opts, "region") \/ ~Has(c.opts, "project")
                    THEN Skipped(p, "--region and --project")
                    ELSE Enter(c, p, "gcp_docker", inst))
      [] p = "aws" ->
           Prefixed("AWS ECR",
                    IF ~Has(c.opts, "region")
                    THEN Skipped(p, "--region")
                    ELSE Enter(c, p, "aws_token", inst))
      [] p = "azure" ->
           Prefixed("Azure ACR",
                    IF ~Has(c.opts, "registry")
                    THEN Enter(c, p, "az_list", inst)
                    ELSE Enter(c, p, "az_login", inst))

\* the switch of registryCommand up to the first await
SingleCall(c, inst) ==
    CASE c.provider = "gcp" ->
           IF ~Has(c.opts, "project")
           THEN InTurn(Enter(c, "gcp", "gcp_project", inst))
           ELSE IF ~Has(c.opts, "region")
           THEN Fail(c, "gcp", "", "--region is required for GCP registry login")
           ELSE InTurn(Enter(c, "gcp", "gcp_docker", inst))
      [] c.provider = "aws" ->
           IF ~Has(c.opts, "region")
           THEN Fail(c, "aws", "", "--region is required for AWS registry login")
           ELSE InTurn(Enter(c, "aws", "aws_token", inst))
      [] c.provider = "azure" -> InTurn(LoginCall(c, "azure", inst))

\* the calls made one after the other, each up to its first await; what
\* the calls do without a subprocess to wait for follows once all the calls
\* are made, turn by turn and in the order of the calls within a turn
RECURSIVE LoginCalls(_, _, _, _, _)
LoginCalls(c, order, i, inst, acc) ==
    IF i > Len(order)
    THEN [task |-> acc.task,
          log |-> acc.log \o Turn(acc.late, 1) \o Turn(acc.late, 2) \o Turn(acc.late, 3),
          late |-> <<>>]
    ELSE LET r == LoginCall(c, order[i], inst)
         IN  LoginCalls(c, order, i + 1, inst,
                        [task |-> [acc.task EXCEPT ![order[i]] = r.t],
                         log |-> acc.log \o r.ev,
                         late |-> [k \in 1..3 |-> Turn(acc.late, k) \o Turn(r.late, k)]])

LoginsStartedOneAtATime(c, order, inst) ==
    LoginCalls(c, <<order[1]>>, 1, inst, [task |-> IdleTasks, log |-> <<>>, late |-> <<>>])

\* Promise.all([loginGcp(opts), loginAws(opts), loginAzure(opts)]) up to
\* its await
LoginsStarted(c, order, inst) ==
    LoginCalls(c, order, 1, inst, [task |-> IdleTasks, log |-> <<>>, late |-> <<>>])

\* registryCommand up to its first await
RegistryBegin ==
    /\ cmd.name = "registry"
    /\ mpc = "start"
    /\ IF AllMode(cmd)
       THEN LET s == LoginsStarted(cmd, ProviderOrder, installed)
            IN  /\ task' = s.task
                /\ elog' = <<LineEvent("Container Registry Login"),
                             LineEvent("Logging into all cloud registries...")>> \o s.log
                /\ mpc' = "join"
       ELSE LET r == SingleCall(cmd, installed)
            IN  /\ task' = [IdleTasks EXCEPT ![cmd.provider] = r.t]
                /\ elog' = <<LineEvent("Container Registry Login")>> \o r.ev
                /\ mpc' = "single"
    /\ UNCHANGED merr
    /\ FanFrame

\* the subprocess a registry operation waits for has exited
RegistryStepExit(p) ==
    /\ cmd.name = "registry"
    /\ task[p].pc \in RegistrySteps
    /\ \E code \in ExitCodes, out \in DetailOutputs :
          LET pc == task[p].pc
              ev == ExitEvent(p, StepCommand(pc), code)
              failed == IF pc = "gcp_project"
                        THEN ~(code = 0 /\ Trim(out) # "")
                        ELSE code # 0
              r == IF failed THEN Fail(cmd, p, pc, StepError(pc, code))
                   ELSE IF StepNext(pc) # "" THEN InTurn(Enter(cmd, p, StepNext(pc), installed))
                   ELSE [t |-> Returned(IdleTask, [ok |-> StepDone(pc).ok]),
                         ev |-> StepDone(pc).ev \o <<ReturnEvent(p)>>]
          IN  /\ task' = [task EXCEPT ![p] = r.t]
              /\ elog' = elog \o <<ev>> \o r.ev
    /\ UNCHANGED <<mpc, merr>>
    /\ FanFrame

\* Promise.all has resolved: the combined summary
RegistryJoin ==
    /\ cmd.name = "registry"
    /\ mpc = "join"
    /\ \A p \in Providers : task[p].pc = "returned"
    /\ LET count == Cardinality({p \in Providers : task[p].res.ok})
       IN  elog' = elog \o <<LineEvent(IF count = 3
                                        THEN "All 3 registries authenticated successfully!"
                                        ELSE ToString(count) \o "/3 registries authenticated")>>
    /\ mpc' = "done"
    /\ UNCHANGED <<task, merr>>
    /\ FanFrame

\* the one operation of a single-provider invocation has returned or
\* thrown: registryCommand returns, or its error reaches main's catch
RegistryEnd ==
    /\ cmd.name = "registry"
    /\ mpc = "single"
    /\ task[cmd.provider].pc \in {"returned", "threw"}
    /\ IF task[cmd.provider].pc = "threw"
       THEN /\ mpc' = "failed"
            /\ merr' = task[cmd.provider].res.threw
       ELSE /\ mpc' = "done"
            /\ UNCHANGED merr
    /\ UNCHANGED <<task, elog>>
    /\ FanFrame

\* option sets given to registry: any of region, project and registry,
\* and the profile together with all of them
RegistryOptionSets ==
    (SUBSET {"region", "project", "registry"}) \cup {RegistryOptionKeys}

RegistryCommands ==
    {[name |-> "registry", provider |-> p, all |-> a,
      opts |-> [k \in ks |-> RegistrySample[k]]] :
        p \in Providers \cup {"all"}, a \in BOOLEAN, ks \in RegistryOptionSets}

RegistryInstalls == {RegistryTools} \cup {RegistryTools \ {t} : t \in RegistryTools}

InitRegistry ==
    /\ file = NoFile
    /\ last = NoCommand
    /\ installed \in RegistryInstalls
    /\ cname = ""
    /\ cluster = EmptyObj
    /\ cpc = "idle"
    /\ clog = <<>>
    /\ cres = EmptyObj
    /\ cerr = ""
    /\ env = ""
    /\ cmd \in RegistryCommands
    /\ mpc = "start"
    /\ task = IdleTasks
    /\ elog = <<>>
    /\ merr = ""
    /\ PureIdle

NextRegistry ==
    \/ RegistryBegin
    \/ \E p \in Providers : RegistryStepExit(p)
    \/ RegistryJoin
    \/ RegistryEnd

SpecRegistry == InitRegistry /\ [][NextRegistry]_vars

(***************************************************************************)
(* clean (cleanCommand, cleanGcp, cleanAws, cleanAzure, cleanKubeconfig in *)
(* commands/list.ts).  Nothing here catches a failed spawn.                *)
(***************************************************************************)
CleanTargets == Providers \cup {"kubectl"}

CleanTool(t) == IF t = "kubectl" THEN "kubectl" ELSE CliOf(t)

AccountLists ==
    {<<>>, <<"me@corp.io", "\n">>, <<"me@corp.io", "\n", "you@corp.io", "\n">>}

ContextLists == {<<>>, <<"ctx1", "\n">>, <<"ctx1", "\n", "ctx2", "\n">>}

RECURSIVE SplitLines(_, _, _)
SplitLines(out, cur, acc) ==
    IF out = <<>> THEN Append(acc, cur)
    ELSE IF Head(out) = "\n" THEN SplitLines(Tail(out), "", Append(acc, cur))
    ELSE SplitLines(Tail(out), cur \o Head(out), acc)

\* stdout.trim().split("\n").filter(Boolean)
Lines(out) ==
    SelectSeq(SplitLines(TrimEnd(TrimStart(out)), "", <<>>), LAMBDA l : l # "")

\* the first subprocess of a cleanup and the line printed before it
CleanFirst(t) ==
    CASE t = "gcp" -> [pc |-> "list", what |-> "gcloud auth list",
                       line |-> "Cleaning GCP sessions..."]
      [] t = "aws" -> [pc |-> "logout", what |-> "aws sso logout",
                       line |-> "Cleaning AWS sessions..."]
      [] t = "azure" -> [pc |-> "logout", what |-> "az logout",
                         line |-> "Cleaning Azure sessions..."]
      [] t = "kubectl" -> [pc |-> "list", what |-> "kubectl config get-contexts",
                           line |-> "Cleaning kubectl contexts..."]

FirstTarget(c) ==
    IF c.provider # "" THEN c.provider ELSE IF c.all THEN "gcp" ELSE "kubectl"

NextAfterSkipsAzure(c, t) ==
    IF t = "kubectl" THEN ""
    ELSE IF c.provider # "" THEN "kubectl"
    ELSE CASE t = "gcp" -> "aws"
           [] t = "aws" -> "kubectl"
           [] t = "azure" -> "kubectl"

\* what cleanCommand awaits after the cleanup of t has returned ("" = nothing)
NextAfter(c, t) ==
    IF t = "kubectl" THEN ""
    ELSE IF c.provider # "" THEN "kubectl"
    ELSE CASE t = "gcp" -> "aws"
           [] t = "aws" -> "azure"
           [] t = "azure" -> "kubectl"

\* the call of the cleanup of t up to its first await
StartClean(c, t, tk, log, inst) ==
    IF CleanTool(t) \in inst
    THEN [task |-> [tk EXCEPT ![t] = Awaiting(CleanFirst(t).pc)],
          log |-> log \o <<LineEvent(CleanFirst(t).line), SpawnEvent(t, CleanFirst(t).what)>>,
          mpc |-> "run", err |-> ""]
    ELSE [task |-> [tk EXCEPT ![t] = [IdleTask EXCEPT !.pc = "threw"]],
          log |-> log \o <<LineEvent(CleanFirst(t).line), SpawnFailure(t, CleanFirst(t).what)>>,
          mpc |-> "failed", err |-> ExecutableNotFound]

\* the cleanup of t returns after printing the lines: cleanCommand goes on
\* to the next cleanup, or prints Done
FinishClean(c, t, tk, log, lines, inst) ==
    LET tk2 == [tk EXCEPT ![t] = Returned(IdleTask, EmptyObj)]
        log2 == log \o lines \o <<ReturnEvent(t)>>
    IN  IF NextAfter(c, t) = ""
        THEN [task |-> tk2,
              log |-> log2 \o (IF c.provider = "" /\ ~c.all
                               THEN <<LineEvent("Tip: Use \"cloum clean --all\"")>>
                               ELSE <<>>)
                           \o <<LineEvent("Done.")>>,
              mpc |-> "done", err |-> ""]
        ELSE StartClean(c, NextAfter(c, t), tk2,
                        log2 \o (IF c.provider = "" THEN <<LineEvent("")>> ELSE <<>>),
                        inst)

CleanStep(r) ==
    /\ task' = r.task
    /\ elog' = r.log
    /\ mpc' = r.mpc
    /\ merr' = r.err
    /\ FanFrame

\* cleanCommand up to its first await
CleanBegin ==
    /\ cmd.name = "clean"
    /\ mpc = "start"
    /\ CleanStep(StartClean(cmd, FirstTarget(cmd), task,
                            <<LineEvent("Cleaning cloud sessions...")>>, installed))

\* cleanGcp: gcloud auth list has exited
CleanGcpList ==
    /\ cmd.name = "clean"
    /\ mpc = "run"
    /\ task["gcp"].pc = "list"
    /\ \E code \in ExitCodes, out \in AccountLists :
          LET ev == ExitEvent("gcp", "gcloud auth list", code)
          IN  IF code # 0 \/ Trim(out) = ""
              THEN CleanStep(FinishClean(cmd, "gcp", task, elog \o <<ev>>,
                                         <<LineEvent("No active GCP accounts found.")>>,
                                         installed))
              ELSE CleanStep([task |-> [task EXCEPT !["gcp"] =
                                          [@ EXCEPT !.pc = "revoke", !.out = Lines(out)]],
                              log |-> elog \o <<ev, LineEvent("Revoking: " \o Lines(out)[1]),
                                                SpawnEvent("gcp", "gcloud auth revoke")>>,
                              mpc |-> "run", err |-> ""])

\* cleanGcp: gcloud auth revoke of one account has exited
CleanGcpRevoke ==
    /\ cmd.name = "clean"
    /\ mpc = "run"
    /\ task["gcp"].pc = "revoke"
    /\ \E code \in ExitCodes :
          LET ev == ExitEvent("gcp", "gcloud auth revoke", code)
              rest == Tail(task["gcp"].out)
          IN  IF rest = <<>>
              THEN CleanStep(FinishClean(cmd, "gcp", task, elog \o <<ev>>,
                                         <<LineEvent("GCP credentials revoked")>>,
                                         installed))
              ELSE CleanStep([task |-> [task EXCEPT !["gcp"].out = rest],
                              log |-> elog \o <<ev, LineEvent("Revoking: " \o rest[1]),
                                                SpawnEvent("gcp", "gcloud auth revoke")>>,
                              mpc |-> "run", err |-> ""])

\* cleanAws / cleanAzure: the logout has exited
CleanLogout(p) ==
    /\ cmd.name = "clean"
    /\ mpc = "run"
    /\ p \in {"aws", "azure"}
    /\ task[p].pc = "logout"
    /\ \E code \in ExitCodes :
          CleanStep(FinishClean(cmd, p, task,
                                elog \o <<ExitEvent(p, CleanFirst(p).what, code)>>,
                                <<LineEvent(IF code = 0 THEN "session cleared"
                                            ELSE CleanFirst(p).what \o ": " \o SampleStderr)>>,
                                installed))

\* cleanKubeconfig: kubectl config get-contexts has exited
KubeList ==
    /\ cmd.name = "clean"
    /\ mpc = "run"
    /\ task["kubectl"].pc = "list"
    /\ \E code \in ExitCodes, out \in ContextLists :
          LET ev == ExitEvent("kubectl", "kubectl config get-contexts", code)
          IN  IF code # 0 \/ Trim(out) = ""
              THEN CleanStep(FinishClean(cmd, "kubectl", task, elog \o <<ev>>,
                                         <<LineEvent("No kubectl contexts found.")>>,
                                         installed))
              ELSE CleanStep([task |-> [task EXCEPT !["kubectl"] =
                                          [@ EXCEPT !.pc = "delctx", !.out = Lines(out)]],
                              log |-> elog \o <<ev,
                                                LineEvent("Removing " \o ToString(Len(Lines(out)))
                                                            \o " context(s)..."),
                                                SpawnEvent("kubectl", "kubectl config delete-context")>>,
                              mpc |-> "run", err |-> ""])

\* cleanKubeconfig: delete-context of one context has exited
KubeDeleteContext ==
    /\ cmd.name = "clean"
    /\ mpc = "run"
    /\ task["kubectl"].pc = "delctx"
    /\ \E code \in ExitCodes :
          CleanStep([task |-> [task EXCEPT !["kubectl"].pc = "delcluster"],
                     log |-> elog \o <<ExitEvent("kubectl", "kubectl config delete-context", code),
                                       SpawnEvent("kubectl", "kubectl config delete-cluster")>>,
                     mpc |-> "run", err |-> ""])

\* cleanKubeconfig: delete-cluster of one context has exited
KubeDeleteCluster ==
    /\ cmd.name = "clean"
    /\ mpc = "run"
    /\ task["kubectl"].pc = "delcluster"
    /\ \E code \in ExitCodes :
          LET ev == ExitEvent("kubectl", "kubectl config delete-cluster", code)
              rest == Tail(task["kubectl"].out)
          IN  IF rest = <<>>
              THEN CleanStep(FinishClean(cmd, "kubectl", task, elog \o <<ev>>,
                                         <<LineEvent("kubectl contexts cleared")>>,
                                         installed))
              ELSE CleanStep([task |-> [task EXCEPT !["kubectl"] =
                                          [@ EXCEPT !.pc = "delctx", !.out = rest]],
                              log |-> elog \o <<ev, SpawnEvent("kubectl",
                                                               "kubectl config delete-context")>>,
                              mpc |-> "run", err |-> ""])

(***************************************************************************)
(* The classifier run on stderr texts.                                     *)
(***************************************************************************)
MaxChunks == 3      \* pieces a stderr text is put together from

\* the phrases each classifier looks for
KnownPhrases(p) ==
    CASE p = "gcp" ->
           {<<"reauthentication", "failed">>,
            <<"there", "was", "a", "problem", "refreshing", "your", "current", "auth",
              "tokens">>,
            <<"invalid", "credentials">>, <<"token", "expired">>,
            <<"permission", "denied">>, <<"insufficient", "permissions">>,
            <<"not", "found">>, <<"project">>, <<"cluster">>, <<"region">>, <<"zone">>}
      [] p = "aws" ->
           {<<"the", "sso", "session", "associated", "with", "this", "profile", "has",
              "expired">>,
            <<"sso", "session", "has", "expired">>, <<"error", "validating", "provider">>,
            <<"profile">>, <<"does", "not", "exist">>, <<"access", "denied">>,
            <<"unauthorized">>, <<"not", "found">>, <<"cluster">>}
      [] p = "azure" ->
           {<<"please", "run">>, <<"az", "login">>, <<"subscription">>, <<"not", "found">>,
            <<"not", "exist">>, <<"permission", "denied">>, <<"authorization", "failed">>,
            <<"cluster">>}

\* the message as the AWS CLI words it
SsoExpiredAsPrinted ==
    <<"Error:", "The", "SSO", "session", "associated", "with", "this", "profile", "has",
      "expired">>

\* the text in capital letters
Shouted(text) ==
    [i \in DOMAIN text |->
        IF text[i] \in DOMAIN UpperCase THEN UpperCase[text[i]] ELSE text[i]]

\* the pieces a stderr text of provider p is put together from: each known
\* phrase in small and in capital letters, another word, a blank, a carriage
\* return, a line break
Chunks(p) ==
    KnownPhrases(p)
        \cup {Shouted(ph) : ph \in KnownPhrases(p)}
        \cup {<<"Error:">>, <<" ">>, <<"\r">>, <<"\n">>}
        \cup (IF p = "aws" THEN {SsoExpiredAsPrinted} ELSE {})

RECURSIVE Flatten(_)
Flatten(chunks) == IF chunks = <<>> THEN <<>> ELSE Head(chunks) \o Flatten(Tail(chunks))

PureFrame ==
    UNCHANGED <<file, last, installed, cname, cluster, cpc, clog, cres, cerr, env,
                cmd, mpc, task, elog, merr>>

\* a provider adapter classifies the stderr of a failed subprocess
Classify ==
    /\ input.fn = "classify"
    /\ output = EmptyObj
    /\ output' = ParseError(input.provider, input.stderr)
    /\ UNCHANGED input
    /\ PureFrame

InitClassifier ==
    /\ file = NoFile
    /\ last = NoCommand
    /\ ConnectIdle
    /\ FanIdle
    /\ \E p \in Providers, n \in 0..MaxChunks :
         \E chunks \in [1..n -> Chunks(p)] :
            input = [fn |-> "classify", provider |-> p, stderr |-> Flatten(chunks)]
    /\ output = EmptyObj

NextClassifier == Classify

SpecClassifier == InitClassifier /\ [][NextClassifier]_vars

(***************************************************************************)
(* The update command.  A version is the text between the dots: a sequence *)
(* of components, each a sequence of decimal digits ("1.10" is             *)
(* <<<<1>>, <<1, 0>>>>).  A release tag is a version with or without a     *)
(* leading "v".                                                            *)
(***************************************************************************)
MaxComponents == 3  \* components of a version

\* Number(text) of a component
Number(text) ==
    LET RECURSIVE Value(_)
        Value(t) == IF t = <<>> THEN 0 ELSE 10 * Value(SubSeq(t, 1, Len(t) - 1)) + t[Len(t)]
    IN  Value(text)

\* a.split(".").map(Number)
Parts(version) == [i \in DOMAIN version |-> Number(version[i])]

\* aParts[i] || 0
PartOrZero(parts, i) == IF i \in DOMAIN parts THEN parts[i] ELSE 0

\* the characters of the version text: the digits, and -1 for the dot, which
\* sorts before every digit
RECURSIVE VersionText(_)
VersionText(version) ==
    IF version = <<>> THEN <<>>
    ELSE IF Len(version) = 1 THEN Head(version)
    ELSE Head(version) \o <<-1>> \o VersionText(Tail(version))

\* the comparison of the two texts as strings
compareVersionsAsStrings(a, b) ==
    LET s == VersionText(a)
        t == VersionText(b)
        differ == {i \in 1..Len(s) : i > Len(t) \/ s[i] # t[i]}
    IN  IF differ = {}
        THEN (IF Len(s) = Len(t) THEN 0 ELSE -1)
        ELSE LET i == CHOOSE k \in differ : \A j \in differ : k <= j
             IN  IF i > Len(t) THEN 1 ELSE IF s[i] > t[i] THEN 1 ELSE -1

\* compareVersions
compareVersions(a, b) ==
    LET aParts == Parts(a)
        bParts == Parts(b)
        n == IF Len(aParts) > Len(bParts) THEN Len(aParts) ELSE Len(bParts)
        differ == {i \in 1..n : PartOrZero(aParts, i) # PartOrZero(bParts, i)}
    IN  IF differ = {} THEN 0
        ELSE LET i == CHOOSE k \in differ : \A j \in differ : k <= j
             IN  IF PartOrZero(aParts, i) > PartOrZero(bParts, i) THEN 1 ELSE -1

\* release.tag_name without its leading "v": a tag is the version text and
\* whether a "v" stands before it
LatestVersion(tag_name) == tag_name.rest

NoRelease == [fetched |-> FALSE]

\* the outcome of updateCommand: what it printed and how it installed
Updated(printed, how) == [printed |-> printed, installed |-> how]

\* updateCommand(force)
UpdateCommand ==
    /\ input.fn = "update"
    /\ output = EmptyObj
    /\ IF ~input.release.fetched
       THEN output' = Updated(<<"checking", "current", "no release info">>, "script")
       ELSE LET cmp == compareVersions(input.current, LatestVersion(input.release.tag_name))
                head == <<"checking", "current", "latest">>
            IN  IF ~input.force /\ cmp = 0
                THEN output' = Updated(head \o <<"on the latest version">>, "nothing")
                ELSE IF ~input.force /\ cmp > 0
                THEN output' = Updated(head \o <<"newer than latest release">>, "nothing")
                ELSE \/ output' = Updated(head \o <<"updating", "no compatible binary">>,
                                          "script")
                     \/ output' = Updated(head \o <<"updating", "downloading", "updated">>,
                                          "binary")
                     \/ output' = Updated(head \o <<"updating", "downloading",
                                                    "update failed">>, "script")
    /\ UNCHANGED input
    /\ PureFrame

\* the texts a component is written with
ComponentTexts == {<<0>>, <<2>>, <<9>>, <<1, 0>>}

Versions == UNION {[1..n -> ComponentTexts] : n \in 1..MaxComponents}

InitUpdate ==
    /\ file = NoFile
    /\ last = NoCommand
    /\ ConnectIdle
    /\ FanIdle
    /\ \E current \in Versions, force \in BOOLEAN :
          \/ input = [fn |-> "update", current |-> current, force |-> force,
                      release |-> NoRelease]
          \/ \E latest \in Versions, v \in BOOLEAN :
                input = [fn |-> "update", current |-> current, force |-> force,
                         release |-> [fetched |-> TRUE,
                                      tag_name |-> [v |-> v, rest |-> latest]]]
    /\ output = EmptyObj

NextUpdate == UpdateCommand

SpecUpdate == InitUpdate /\ [][NextUpdate]_vars

(***************************************************************************)
(* The dispatcher.  main takes the command and the rest of argv, routes    *)
(* to the command's handler inside one try block, and ends the process.    *)
(* The repository holds two versions of main: src/index.ts, and the later  *)
(* one with a help text per command.                                       *)
(***************************************************************************)
Builds == {"index.ts", "part_000"}

\* the arguments that start with "--", and the key each one stands for
FlagKey ==
    ("--help" :> "help") @@ ("--h" :> "h") @@ ("--name" :> "name")
        @@ ("--region" :> "region") @@ ("--cluster-name" :> "cluster-name")
        @@ ("--all" :> "all") @@ ("--force" :> "force") @@ ("--open" :> "open")

\* arg.startsWith("--")
StartsWithDashes(arg) == arg \in DOMAIN FlagKey

\* the value parseFlags stores for a flag: true, or the argument after it
FlagTrue == [bool |-> TRUE, text |-> ""]
FlagText(text) == [bool |-> FALSE, text |-> text]

\* parseFlags: a later occurrence of a flag overwrites an earlier one
RECURSIVE parseFlags(_)
parseFlags(args) ==
    IF args = <<>> THEN EmptyObj
    ELSE IF ~StartsWithDashes(Head(args)) THEN parseFlags(Tail(args))
    ELSE IF Len(args) >= 2 /\ args[2] # "" /\ ~StartsWithDashes(args[2])
    THEN parseFlags(SubSeq(args, 3, Len(args))) @@ (FlagKey[Head(args)] :> FlagText(args[2]))
    ELSE parseFlags(Tail(args)) @@ (FlagKey[Head(args)] :> FlagTrue)

\* flags[key] === true
IsTrue(flags, key) == key \in DOMAIN flags /\ flags[key].bool

\* flagStr, "" standing for undefined
flagStr(flags, key) ==
    IF key \in DOMAIN flags /\ ~flags[key].bool THEN flags[key].text ELSE ""

\* rest[0], "" standing for undefined
First(rest) == IF rest = <<>> THEN "" ELSE rest[1]

\* what a case of the switch comes to: it prints a text, throws, calls the
\* command's handler, or starts the uninstall script
Says(text) == [do |-> "say", text |-> text]
Throws(message) == [do |-> "throw", message |-> message]
Calls(handler, args) == [do |-> "call", handler |-> handler, args |-> args]

InvalidProvider(raw) == "Invalid provider \"" \o raw \o "\". Must be one of: gcp, aws, azure"

\* the help text of each command in the later version of main
CommandHelp ==
    [connect |-> "CONNECT_HELP", list |-> "LIST_HELP", status |-> "STATUS_HELP",
     add |-> "ADD_HELP", discover |-> "DISCOVER_HELP", registry |-> "REGISTRY_HELP",
     clean |-> "CLEAN_HELP", remove |-> "REMOVE_HELP", ai |-> "AI_HELP",
     import |-> "IMPORT_HELP", update |-> "UPDATE_HELP"]

\* the case of the switch for a command that has a handler, after the check
\* for --help
CommandCase(command, rest) ==
    LET flags == parseFlags(rest)
        after == parseFlags(Tail(rest))
        valid == First(rest) \in Providers
    IN  CASE command = "connect" ->
               IF First(rest) = "" THEN Throws("Usage: cloum connect <name>")
               ELSE Calls("connectCommand", [name |-> First(rest)])
          [] command = "list" -> Calls("listCommand", EmptyObj)
          [] command = "status" -> Calls("statusCommand", EmptyObj)
          [] command = "add" ->
               IF ~valid THEN Throws(InvalidProvider(First(rest)))
               ELSE IF flagStr(after, "name") = "" THEN Throws("--name is required")
               ELSE IF flagStr(after, "region") = "" THEN Throws("--region is required")
               ELSE IF flagStr(after, "cluster-name") = ""
               THEN Throws("--cluster-name is required")
               ELSE Calls("addCommand",
                          [provider |-> First(rest), name |-> flagStr(after, "name"),
                           region |-> flagStr(after, "region"),
                           clusterName |-> flagStr(after, "cluster-name")])
          [] command = "discover" ->
               IF ~valid THEN Throws(InvalidProvider(First(rest)))
               ELSE Calls("discoverCommand",
                          [provider |-> First(rest), region |-> flagStr(after, "region")])
          [] command = "registry" ->
               IF First(rest) # "all" /\ ~valid THEN Throws(InvalidProvider(First(rest)))
               ELSE Calls("registryCommand",
                          [provider |-> First(rest), region |-> flagStr(after, "region"),
                           all |-> IsTrue(after, "all")])
          [] command = "clean" ->
               Calls("cleanCommand",
                     [all |-> IsTrue(flags, "all"),
                      provider |-> IF valid THEN First(rest) ELSE ""])
          [] command = "remove" ->
               IF First(rest) = "" THEN Throws("Usage: cloum remove <name>")
               ELSE Calls("removeCommand", [name |-> First(rest)])
          [] command = "ai" -> Calls("aiCommand", [open |-> IsTrue(flags, "open")])
          [] command = "import" ->
               IF First(rest) = "" THEN Throws("Usage: cloum import <file.json>")
               ELSE Calls("importCommand", [filePath |-> First(rest)])
          [] command = "update" -> Calls("updateCommand", [force |-> IsTrue(flags, "force")])

\* the switch of main
Switch(build, command, rest) ==
    IF command \in {"help", "--help", "-h"} THEN Says("HELP")
    ELSE IF command \in DOMAIN CommandHelp
    THEN IF /\ build = "part_000"
            /\ IsTrue(parseFlags(rest), "help") \/ IsTrue(parseFlags(rest), "h")
         THEN Says(CommandHelp[command])
         ELSE CommandCase(command, rest)
    ELSE IF command = "uninstall" THEN [do |-> "uninstall"]
    ELSE IF command \in {"version", "--version", "-v"} THEN Says("cloum vVERSION")
    ELSE [do |-> "unknown"]

\* the process: where it is, what it wrote, what was called and thrown,
\* and the exit code once it has ended
Running(pc, called) ==
    [pc |-> pc, stdout |-> <<>>, stderr |-> <<>>, called |-> called, thrown |-> "",
     code |-> 0]

\* the process ends with the code
ProcessExit(process, code) == [process EXCEPT !.pc = "exited", !.code = code]

\* the catch block of main, had it dropped the error
CatchSwallows(process, message) == ProcessExit([process EXCEPT !.thrown = message], 0)

\* the catch block of main: console.error(`\nError: ${message}\n`); process.exit(1)
Catch(process, message) ==
    ProcessExit([process EXCEPT !.thrown = message,
                         !.stderr = @ \o <<"Error: " \o message>>], 1)

\* main, up to the first await or the end of the process
MainBegin ==
    /\ input.fn = "main"
    /\ output = EmptyObj
    /\ LET start == Running("main", "")
           case == Switch(input.build, input.command, input.rest)
       IN  IF input.command = ""
           THEN output' = ProcessExit([start EXCEPT !.stdout = <<"HELP">>], 0)
           ELSE CASE case.do = "say" ->
                       output' = ProcessExit([start EXCEPT !.stdout = <<case.text>>], 0)
                  [] case.do = "throw" -> output' = Catch(start, case.message)
                  [] case.do = "call" ->
                       output' = [start EXCEPT !.pc = "handler", !.called = case.handler]
                  [] case.do = "uninstall" ->
                       \/ output' = [start EXCEPT !.pc = "uninstall",
                                                  !.stdout = <<"Uninstalling cloum...">>]
                       \/ output' = Catch([start EXCEPT !.stdout = <<"Uninstalling cloum...">>],
                                          ExecutableNotFound)
                  [] case.do = "unknown" ->
                       output' = ProcessExit([start EXCEPT
                                          !.stderr = <<"Unknown command: \"" \o input.command \o "\"">>,
                                          !.stdout = <<"HELP">>], 1)
    /\ UNCHANGED input
    /\ PureFrame

\* the awaited handler returns: main ends and the process with it
HandlerReturns ==
    /\ input.fn = "main"
    /\ output # EmptyObj
    /\ output.pc = "handler"
    /\ output' = ProcessExit(output, 0)
    /\ UNCHANGED input
    /\ PureFrame

\* the errors a handler may reject with
HandlerErrors == {"Cluster \"prod\" not found", ExecutableNotFound}

\* the awaited handler rejects: the catch block of main runs
HandlerRaises ==
    /\ input.fn = "main"
    /\ output # EmptyObj
    /\ output.pc = "handler"
    /\ \E message \in HandlerErrors : output' = Catch(output, message)
    /\ UNCHANGED input
    /\ PureFrame

\* the uninstall script exits
UninstallExits ==
    /\ input.fn = "main"
    /\ output # EmptyObj
    /\ output.pc = "uninstall"
    /\ \E code \in {0, 1} :
          output' = ProcessExit([output EXCEPT !.stdout =
                             @ \o <<IF code = 0 THEN "Uninstall complete!"
                                    ELSE "Uninstall failed with code 1">>], 0)
    /\ UNCHANGED input
    /\ PureFrame

\* the commands typed: every command of the switch, no command, and others
TypedCommands ==
    DOMAIN CommandHelp \cup {"help", "--help", "-h", "version", "--version", "-v",
                             "uninstall", "", "conect", "login"}

\* the rest of argv
TypedRests ==
    {<<>>, <<"prod">>, <<"--help">>, <<"--h">>, <<"prod", "--help">>, <<"--help", "prod">>,
     <<"-h">>, <<"prod", "-h">>, <<"gcp", "-h">>,
     <<"gcp">>, <<"all">>, <<"all", "--all">>, <<"gcp", "--help">>, <<"digitalocean">>,
     <<"--all">>, <<"aws", "--all">>, <<"--all", "aws">>, <<"--force">>, <<"--open">>,
     <<"gcp", "--name", "prod", "--region", "us-east1", "--cluster-name", "c1">>,
     <<"gcp", "--name", "--region", "us-east1", "--cluster-name", "c1">>,
     <<"gcp", "--name", "prod", "--cluster-name", "c1">>,
     <<"gcp", "--name", "prod", "--region", "us-east1">>,
     <<"gcp", "--name", "old", "--region", "us-east1", "--cluster-name", "c1",
       "--name", "prod">>}

InitMain ==
    /\ file = NoFile
    /\ last = NoCommand
    /\ ConnectIdle
    /\ FanIdle
    /\ input \in {[fn |-> "main", build |-> b, command |-> c, rest |-> r] :
                     b \in Builds, c \in TypedCommands, r \in TypedRests}
    /\ output = EmptyObj

NextMain ==
    \/ MainBegin
    \/ HandlerReturns
    \/ HandlerRaises
    \/ UninstallExits

SpecMain == InitMain /\ [][NextMain]_vars

(***************************************************************************)
(* The clean command as main calls it: the options of cleanCommand are     *)
(* what the clean case of main makes of the typed arguments.               *)
(***************************************************************************)
\* what is typed after "cloum clean"
CleanRests ==
    {<<>>, <<"--all">>, <<"gcp">>, <<"aws">>, <<"azure">>, <<"gcp", "--all">>,
     <<"aws", "--all">>, <<"azure", "--all">>, <<"--all", "aws">>}

\* the calls of cleanCommand main makes for them, each with what was typed
CleanCommands ==
    {LET case == Switch("part_000", "clean", r)
     IN  [name |-> "clean", all |-> case.args.all, provider |-> case.args.provider,
          typed |-> r] : r \in CleanRests}

InitClean ==
    /\ file = NoFile
    /\ last = NoCommand
    /\ installed \in StatusInstalls
    /\ cname = ""
    /\ cluster = EmptyObj
    /\ cpc = "idle"
    /\ clog = <<>>
    /\ cres = EmptyObj
    /\ cerr = ""
    /\ env = ""
    /\ cmd \in CleanCommands
    /\ mpc = "start"
    /\ task = [t \in CleanTargets |-> IdleTask]
    /\ elog = <<>>
    /\ merr = ""
    /\ PureIdle

NextClean ==
    \/ CleanBegin
    \/ CleanGcpList
    \/ CleanGcpRevoke
    \/ \E p \in {"aws", "azure"} : CleanLogout(p)
    \/ KubeList
    \/ KubeDeleteContext
    \/ KubeDeleteCluster

SpecClean == InitClean /\ [][NextClean]_vars

(***************************************************************************)
(* Two store commands as concurrent processes on one file.  Every await of *)
(* loader.ts is one step of a process: the exists() test of                *)
(* ensureConfigFile, its mkdir and write of the empty list, the read of    *)
(* loadClusters (with the synchronous computation that follows it) and the *)
(* write of saveClusters.  A Bun.write is not atomic: it opens the file,   *)
(* which empties it, and the text is there when its await ends; a read in  *)
(* between finds no whole JSON document, and of two writes under way at    *)
(* once either text or a mix of both may be left.                          *)
(***************************************************************************)
Procs == {"p1", "p2"}

\* the commands raced: adds and removes of both names, an add that fails
\* its required option after loading, imports of one and of two records
RaceCommands ==
    {[op |-> "add", provider |-> "aws", name |-> n,
      opts |-> [name |-> n, region |-> SampleValue["region"],
                clusterName |-> SampleValue["clusterName"]]] : n \in Names}
    \cup {[op |-> "add", provider |-> "gcp", name |-> "n1",
           opts |-> [name |-> "n1", region |-> SampleValue["region"],
                     clusterName |-> SampleValue["clusterName"]]]}
    \cup {[op |-> "remove", name |-> n] : n \in Names}
    \cup {[op |-> "import",
           doc |-> [kind |-> "doc", entries |-> <<Entry("n2", "azure", {})>>]],
          [op |-> "import",
           doc |-> [kind |-> "doc",
                    entries |-> <<Entry("n1", "gcp", {}), Entry("n2", "azure", {})>>]],
          [op |-> "import", doc |-> [kind |-> "invalid JSON", entries |-> <<>>]]}

\* the stores the race starts from
RaceFiles ==
    {NoFile, EnsureConfigFile(NoFile)}
    \cup {SaveClusters(NoFile, cs) :
            cs \in {<<BuildCluster("aws", [name |-> "n1", region |-> "eu-west-1",
                                           clusterName |-> "old"])>>,
                    <<BuildCluster("aws", [name |-> "n2", region |-> "eu-west-1",
                                           clusterName |-> "old"]),
                      BuildCluster("aws", [name |-> "n1", region |-> "eu-west-1",
                                           clusterName |-> "old"])>>}}

\* a process: where it is, the file it read, what it is about to write, and
\* the error it threw
Process(pc) ==
    [pc |-> pc, snapshot |-> NoFile, pending |-> NoFile, err |-> "", clash |-> FALSE]

\* the file while a Bun.write is under way, or after two writes ran into
\* each other: it exists and its text is not a whole JSON document
TornFile == [exists |-> TRUE, clusters |-> <<>>, nl |-> FALSE, torn |-> TRUE]

Torn(f) == Has(f, "torn")

\* process q is inside a Bun.write: the file is open and cut to length 0,
\* the text is not yet all written
Writing(tk, q) == tk[q].pc \in {"load: creating", "save: creating", "save: writing"}

\* process p opens or closes the file: every other write under way has run
\* into p's
Clashed(tk, p) ==
    [q \in Procs |-> IF q # p /\ Writing(tk, q) THEN [tk[q] EXCEPT !.clash = TRUE] ELSE tk[q]]

\* what a finished Bun.write of a text leaves: the text, or, when another
\* write was under way at the same time, possibly a mix of the two
WriteOutcomes(tk, p, f) == IF tk[p].clash THEN {f, TornFile} ELSE {f}

\* the command run on the file as it was read
CommandResult(c, f) ==
    CASE c.op = "add" -> AddResult(f, c.provider, c.opts)
      [] c.op = "remove" -> RemoveResult(f, c.name)
      [] c.op = "import" -> ImportResult(f, c.doc)

\* whether the command reaches saveClusters
Saves(c, r) == r.err = ""

CreateEvent(p, f) == [k |-> "create", p |-> p, what |-> f, code |-> 0]
SaveEvent(p, f) == [k |-> "save", p |-> p, what |-> f, code |-> 0]

RaceFrame ==
    UNCHANGED <<last, installed, cname, cluster, cpc, clog, cres, cerr, env, cmd, mpc,
                merr, pureVars>>

\* the command starts: import reads and validates its file first and throws
\* without touching the store when it is defective
RaceStart(p) ==
    /\ task[p].pc = "start"
    /\ LET early == cmd[p].op = "import" /\ ImportResult(NoFile, cmd[p].doc).err # ""
       IN  task' = [task EXCEPT ![p] =
                       IF early
                       THEN [@ EXCEPT !.pc = "done",
                                      !.err = ImportResult(NoFile, cmd[p].doc).err]
                       ELSE [@ EXCEPT !.pc = "load: exists"]]
    /\ UNCHANGED <<file, elog>>
    /\ RaceFrame

\* ensureConfigFile: await file.exists(), in loadClusters or in saveClusters
RaceExists(p) ==
    /\ task[p].pc \in {"load: exists", "save: exists"}
    /\ LET phase == IF task[p].pc = "load: exists" THEN "load" ELSE "save"
       IN  task' = [task EXCEPT ![p].pc =
                       IF ~file.exists THEN phase \o ": mkdir"
                       ELSE IF phase = "load" THEN "load: read" ELSE "save: write"]
    /\ UNCHANGED <<file, elog>>
    /\ RaceFrame

\* ensureConfigFile found no file: await Bun.spawn(["mkdir", "-p", ...]).exited;
\* the directory is not part of the store
RaceMkdir(p) ==
    /\ task[p].pc \in {"load: mkdir", "save: mkdir"}
    /\ task' = [task EXCEPT ![p].pc =
                   IF task[p].pc = "load: mkdir" THEN "load: create" ELSE "save: create"]
    /\ UNCHANGED <<file, elog>>
    /\ RaceFrame

\* ensureConfigFile after the mkdir: Bun.write of { clusters: [] } opens the
\* file, which cuts it to length 0
RaceCreate(p) ==
    /\ task[p].pc \in {"load: create", "save: create"}
    /\ file' = TornFile
    /\ task' = Clashed([task EXCEPT ![p].pc = IF task[p].pc = "load: create"
                                                THEN "load: creating" ELSE "save: creating",
                                     ![p].clash = \E q \in Procs \ {p} : Writing(task, q)],
                        p)
    /\ UNCHANGED elog
    /\ RaceFrame

\* the await of that Bun.write ends: the text is written
RaceCreated(p) ==
    /\ task[p].pc \in {"load: creating", "save: creating"}
    /\ file' \in WriteOutcomes(task, p, EnsureConfigFile(NoFile))
    /\ elog' = Append(elog, CreateEvent(p, EnsureConfigFile(NoFile)))
    /\ task' = Clashed([task EXCEPT ![p].pc = IF task[p].pc = "load: creating"
                                                THEN "load: read" ELSE "save: write",
                                     ![p].clash = FALSE],
                        p)
    /\ RaceFrame

\* loadClusters: await file.json(), then the command up to its saveClusters
\* call or its throw; a file that is not a whole JSON document makes
\* file.json() throw
RaceRead(p) ==
    /\ task[p].pc = "load: read"
    /\ LET r == CommandResult(cmd[p], file)
       IN  task' = [task EXCEPT ![p] =
                       IF Torn(file)
                       THEN [@ EXCEPT !.pc = "done", !.snapshot = file,
                                      !.err = "JSON Parse error"]
                       ELSE IF Saves(cmd[p], r)
                       THEN [@ EXCEPT !.pc = "save: exists", !.snapshot = file,
                                      !.pending = r.file]
                       ELSE [@ EXCEPT !.pc = "done", !.snapshot = file, !.err = r.err]]
    /\ UNCHANGED <<file, elog>>
    /\ RaceFrame

\* saveClusters: Bun.write of the whole list opens the file, which cuts it
\* to length 0
RaceWrite(p) ==
    /\ task[p].pc = "save: write"
    /\ file' = TornFile
    /\ task' = Clashed([task EXCEPT ![p].pc = "save: writing",
                                     ![p].clash = \E q \in Procs \ {p} : Writing(task, q)],
                        p)
    /\ UNCHANGED elog
    /\ RaceFrame

\* the await of that Bun.write ends: the list is written
RaceWritten(p) ==
    /\ task[p].pc = "save: writing"
    /\ file' \in WriteOutcomes(task, p, task[p].pending)
    /\ elog' = Append(elog, SaveEvent(p, task[p].pending))
    /\ task' = Clashed([task EXCEPT ![p].pc = "done", ![p].clash = FALSE], p)
    /\ RaceFrame

InitRace ==
    /\ file \in RaceFiles
    /\ last = NoCommand
    /\ ConnectIdle
    /\ PureIdle
    /\ cmd \in [Procs -> RaceCommands]
    /\ mpc = "race"
    /\ task = [p \in Procs |-> Process("start")]
    /\ elog = <<>>
    /\ merr = ""

NextRace ==
    \E p \in Procs :
        \/ RaceStart(p)
        \/ RaceExists(p)
        \/ RaceMkdir(p)
        \/ RaceCreate(p)
        \/ RaceCreated(p)
        \/ RaceRead(p)
        \/ RaceWrite(p)
        \/ RaceWritten(p)

SpecRace == InitRace /\ [][NextRace]_vars

(***************************************************************************)
(* Properties of the store commands.                                       *)
(***************************************************************************)
\* the records in a file (none when the file is absent)
StoreOf(f) == [i \in 1..Len(f.clusters) |-> ParseObj(f.clusters[i])]
Store == StoreOf(file)
StoreBefore == StoreOf(last.before)
NamesBefore == {StoreBefore[i]["name"] : i \in DOMAIN StoreBefore}

\* C1: whatever add, import and remove commands have run, successful or
\* failing, no two records of the store have the same name.
C1_NamesUnique ==
    \A i, j \in DOMAIN Store : i # j => Store[i]["name"] # Store[j]["name"]

\* an import of a file that holds a new name twice has been saved
C1_Witness ==
    /\ last.op = "import" /\ last.err = ""
    /\ \E i, j \in DOMAIN last.doc.entries :
          /\ i < j
          /\ last.doc.entries[i]["name"] = last.doc.entries[j]["name"]
          /\ last.doc.entries[i]["name"].v \notin NamesBefore
    /\ Len(StoreBefore) = 1

\* C2: an add under a name already in the store fails and leaves the file,
\* hence the list of records, exactly as it was.
C2_DuplicateAddRejected ==
    (last.op = "add" /\ last.name \in NamesBefore)
        => (last.err = "already exists" /\ file = last.before)

C2_Witness ==
    /\ last.op = "add" /\ last.name \in NamesBefore
    /\ Len(StoreBefore) = 2
    /\ last.provider = "aws"
    /\ last.err # ""

\* the record holding exactly what was given to add for its provider
GivenRecord(p, opts) ==
    [k \in {"name", "provider", "region", "clusterName"}
            \cup ((RequiredOf(p) \cup OptionalOf(p)) \cap DOMAIN opts) |->
        IF k = "provider" THEN p ELSE opts[k]]

\* C3: after an add of a fresh name with the provider's required field, the
\* store read back is the store before followed by a record with exactly the
\* given values, optional fields not given being absent.
C3_AddRoundTrip ==
    (/\ last.op = "add"
     /\ last.name \notin NamesBefore
     /\ RequiredOf(last.provider) \subseteq DOMAIN last.opts)
        => /\ last.err = ""
           /\ LoadClusters(file) = Append(StoreBefore, GivenRecord(last.provider, last.opts))

C3_Witness ==
    /\ last.op = "add" /\ last.err = ""
    /\ last.provider = "aws"
    /\ {"profile", "roleArn"} \subseteq DOMAIN last.opts
    /\ Len(StoreBefore) = 1
    /\ Len(Store) = 2

\* C4 as claimed: a remove of a name not in the store fails with not-found
\* and leaves the file as it was, also when the file did not exist.
C4_Original ==
    (last.op = "remove" /\ last.name \notin NamesBefore)
        => (last.err = "not found" /\ file = last.before)

\* C4: a remove of a name not in the store fails with not-found; a file that
\* existed is left exactly as it was, and a file that did not exist has been
\* created holding the empty list.
C4_RemoveMissingLeavesFile ==
    (last.op = "remove" /\ last.name \notin NamesBefore)
        => /\ last.err = "not found"
           /\ last.before.exists => file = last.before
           /\ ~last.before.exists =>
                 file = [exists |-> TRUE, clusters |-> <<>>, nl |-> FALSE]

C4_Witness ==
    /\ last.op = "remove" /\ last.name \notin NamesBefore
    /\ last.err = "not found"
    /\ last.before.exists
    /\ Len(StoreBefore) = 1

\* the names in the imported file, in file order
DocNames == [i \in DOMAIN last.doc.entries |-> last.doc.entries[i]["name"].v]

Pick(seq, keep(_)) ==
    LET idx == SelectSeq([i \in DOMAIN seq |-> i], keep)
    IN  [k \in 1..Len(idx) |-> seq[idx[k]]]

\* C5 as claimed: N records with names not in the store and M with names in
\* it: the store grows by N and the M names are reported skipped.
C5_Original ==
    (last.op = "import" /\ last.err = "")
        => /\ Len(Store) = Len(StoreBefore)
                + Cardinality({i \in DOMAIN DocNames : DocNames[i] \notin NamesBefore})
           /\ last.skipped = Pick(DocNames, LAMBDA i : DocNames[i] \in NamesBefore)

\* C5: the store grows by the number of distinct names of the file that are
\* not in the store, and the names reported skipped are those of the entries
\* whose name is in the store or occurred earlier in the file; with pairwise
\* distinct names in the file that is N added and the M names skipped.
C5_ImportCounts ==
    (last.op = "import" /\ last.err = "")
        => /\ Len(Store) = Len(StoreBefore)
                + Cardinality({DocNames[i] : i \in DOMAIN DocNames} \ NamesBefore)
           /\ last.skipped =
                Pick(DocNames, LAMBDA i : \/ DocNames[i] \in NamesBefore
                                          \/ \E j \in 1..(i - 1) : DocNames[j] = DocNames[i])
           /\ (\A i, j \in DOMAIN DocNames : i # j => DocNames[i] # DocNames[j])
                 => /\ Len(Store) = Len(StoreBefore)
                         + Cardinality({i \in DOMAIN DocNames : DocNames[i] \notin NamesBefore})
                    /\ last.skipped = Pick(DocNames, LAMBDA i : DocNames[i] \in NamesBefore)

\* one new and one already stored name imported
C5_Witness ==
    /\ last.op = "import" /\ last.err = ""
    /\ Len(DocNames) = 2
    /\ DocNames[1] \in NamesBefore
    /\ DocNames[2] \notin NamesBefore
    /\ Len(last.skipped) = 1
    /\ Len(Store) = Len(StoreBefore) + 1

\* the options add would be given for an entry of an imported file
OptsOfEntry(e) == [k \in (DOMAIN e) \ {"provider"} |-> e[k].v]

\* C6: every record an import appends is the record add would store for the
\* same field values, every optional field of the entry included.
C6_ImportStoresWhatAddWould ==
    (last.op = "import" /\ last.err = "")
        => \A i \in DOMAIN last.doc.entries :
              (/\ DocNames[i] \notin NamesBefore
               /\ \A j \in 1..(i - 1) : DocNames[j] # DocNames[i])
                 => \E k \in DOMAIN Store :
                       Store[k] = BuildCluster(last.doc.entries[i]["provider"].v,
                                               OptsOfEntry(last.doc.entries[i]))

\* an entry the claim calls invalid
ClaimedInvalid(e) ==
    \/ \E k \in {"name", "provider", "region", "clusterName"} :
          ~Has(e, k) \/ e[k].t # "string"
    \/ e["provider"].v \notin Providers
    \/ e["provider"].v = "gcp" /\ ~Has(e, "project")
    \/ e["provider"].v = "azure" /\ ~Has(e, "resourceGroup")

\* C7: an import of a file with an invalid entry fails and leaves the file
\* unchanged, also when valid new entries come before the invalid one.
C7_ImportAllOrNothing ==
    (/\ last.op = "import"
     /\ \E i \in DOMAIN last.doc.entries : ClaimedInvalid(last.doc.entries[i]))
        => (last.err # "" /\ file = last.before)

C7_Witness ==
    /\ last.op = "import" /\ last.err # ""
    /\ Len(last.doc.entries) = 2
    /\ ~ClaimedInvalid(last.doc.entries[1])
    /\ ValidationError(last.doc.entries[1]) = ""
    /\ last.doc.entries[1]["name"].v \notin NamesBefore
    /\ ClaimedInvalid(last.doc.entries[2])
    /\ Len(StoreBefore) = 1
    /\ file = last.before

(***************************************************************************)
(* Properties of connect.                                                  *)
(***************************************************************************)
LoginCommands ==
    {"gcloud auth login", "gcloud auth login --account", "aws sso login --profile",
     "az login"}

CredentialFetchCommands ==
    {"gcloud container clusters get-credentials", "aws eks update-kubeconfig",
     "aws eks update-kubeconfig --role-arn", "az aks get-credentials"}

IdentityQueries ==
    {"gcloud auth print-access-token", "aws sts get-caller-identity",
     "az account show --query name"}

Ran(i, cmds) == clog[i].k = "run" /\ clog[i].what \in cmds
Printed(i, line) == clog[i].k = "print" /\ clog[i].what = line

\* C8: once the interactive login connect launched has exited nonzero, the
\* credential fetch is never issued, the success line is never printed and
\* connect does not complete.
C8_LoginFailureFatal ==
    (\E i \in DOMAIN clog : Ran(i, LoginCommands) /\ clog[i].code # 0)
        => /\ \A j \in DOMAIN clog : ~Ran(j, CredentialFetchCommands)
           /\ \A j \in DOMAIN clog : ~Printed(j, SuccessLine)
           /\ cpc # "done"

\* C9: once the credential fetch has exited with code 0, connect does not
\* fail, whatever the later probes do and whether or not their executable
\* can be started.
C9_ProbesNeverFail ==
    (\E i \in DOMAIN clog : Ran(i, CredentialFetchCommands) /\ clog[i].code = 0)
        => cpc # "failed"

FetchAfterIdentity ==
    \A i \in DOMAIN clog :
        Ran(i, CredentialFetchCommands)
            => \E j \in 1..(i - 1) : Ran(j, IdentityQueries)

SuccessAfterFetch ==
    \A i \in DOMAIN clog :
        Printed(i, SuccessLine)
            => \E j \in 1..(i - 1) : Ran(j, CredentialFetchCommands) /\ clog[j].code = 0

\* C10 as claimed: for every record, the credential fetch is issued only
\* after an identity query has completed, and the success line is printed
\* only after the credential fetch has exited with code 0.
C10_Original == FetchAfterIdentity /\ SuccessAfterFetch

\* C10: that holds for every GCP and Azure record and every AWS record with
\* a profile; for an AWS record without a profile the credential fetch is
\* the first command issued, with no identity query before it.
C10_FetchOrder ==
    /\ SuccessAfterFetch
    /\ (cpc # "start" /\ cluster # EmptyObj)
          => IF cluster["provider"] = "aws" /\ ~Truthy(cluster, "profile")
             THEN \A i \in DOMAIN clog :
                     Ran(i, CredentialFetchCommands)
                         => \A j \in 1..(i - 1) : clog[j].k # "run"
             ELSE FetchAfterIdentity

\* an AWS record with a profile has been connected
C10_Witness ==
    /\ cpc = "done"
    /\ cluster["provider"] = "aws"
    /\ Truthy(cluster, "profile")
    /\ \E i \in DOMAIN clog : Printed(i, SuccessLine)
    /\ \E i \in DOMAIN clog : Ran(i, LoginCommands)

\* C11: in Azure connect, once az aks show has exited nonzero it is the last
\* thing the run did: az aks get-credentials is never issued, no alignment,
\* reachability or summary step follows, and the run has ended with the error
\* that names the cluster and the resource group of the record.
C11_AksShowGatesFetch ==
    \A i \in DOMAIN clog :
        (Ran(i, {"az aks show"}) /\ clog[i].code # 0)
            => /\ i = Len(clog)
               /\ \A j \in DOMAIN clog : ~Ran(j, {"az aks get-credentials"})
               /\ cpc = "failed"
               /\ cerr = AksNotFound(cluster)

\* an Azure record with a subscription whose existence check has failed
\* after the subscription was set
C11_Witness ==
    /\ cpc = "failed"
    /\ cluster # EmptyObj
    /\ cluster["provider"] = "azure"
    /\ Truthy(cluster, "subscription")
    /\ Len(clog) > 0
    /\ Ran(Len(clog), {"az aks show"})
    /\ clog[Len(clog)].code # 0
    /\ \E j \in DOMAIN clog : Ran(j, {"az account set --subscription"})

AlignedLine == "Authentication properly aligned"
AlignmentWarnings ==
    {"Authentication may not be fully aligned", "Could not verify auth alignment"}

\* the alignment step of the adapter has printed its verdict
AlignmentDone ==
    \E i \in DOMAIN clog :
        clog[i].k = "print" /\ clog[i].what \in AlignmentWarnings \cup {AlignedLine}

\* what is active after the credential fetch is not what the record asks for
AlignmentMismatch ==
    CASE cluster["provider"] = "gcp" ->
           \/ Truthy(cluster, "account") /\ cres["finalAccount"] # cluster["account"]
           \/ cres["finalProject"] # cluster["project"]
      [] cluster["provider"] = "aws" ->
           Truthy(cluster, "profile") /\ env # cluster["profile"]
      [] cluster["provider"] = "azure" ->
           Truthy(cluster, "subscription") /\ cres["finalSub"] # cluster["subscription"]

\* C12: for every provider, when the account or project (GCP), the profile
\* (AWS) or the subscription (Azure) active after the credential fetch is not
\* the one the record requests, the alignment step prints its warning and
\* not the 'properly aligned' line, and connect goes on to the probes.
C12_MismatchWarns ==
    (AlignmentDone /\ AlignmentMismatch)
        => /\ \E i \in DOMAIN clog :
                 clog[i].k = "print" /\ clog[i].what \in AlignmentWarnings
           /\ \A i \in DOMAIN clog : ~Printed(i, AlignedLine)
           /\ cpc \in {"nodes", "ctx", "done"}
                 \/ (cpc = "failed" /\ "kubectl" \notin installed)

(***************************************************************************)
(* Properties of status.                                                   *)
(***************************************************************************)
WhitespaceOnly(out) == \A i \in DOMAIN out : Blank(out[i])

\* the identity query of provider p was spawned
StatusProbed(p) ==
    \E i \in DOMAIN elog :
        elog[i].k = "spawn" /\ elog[i].p = p /\ elog[i].what = StatusQuery(p)

\* C13: a status operation never throws (statusCommand fails only after all
\* three have returned); it returns unauthenticated with a detail when the
\* CLI cannot be started, unauthenticated when the identity query exits
\* nonzero or prints only whitespace, and authenticated, with a non-empty
\* identity, only when the query exited 0 with output that is not blank.
C13_StatusNeverThrows ==
    /\ mpc = "failed" => \A p \in Providers : task[p].pc = "returned"
    /\ \A p \in Providers :
          task[p].pc = "returned" =>
            LET t == task[p]
                r == t.res
            IN  /\ r.provider = p
                /\ ~StatusProbed(p)
                      => /\ CliOf(p) \notin installed
                         /\ ~r.isAuthenticated
                         /\ Has(r, "details") /\ r.details # ""
                /\ (StatusProbed(p) /\ (t.code # 0 \/ WhitespaceOnly(t.out)))
                      => ~r.isAuthenticated
                /\ r.isAuthenticated
                      => /\ StatusProbed(p)
                         /\ t.code = 0 /\ ~WhitespaceOnly(t.out)
                         /\ Has(r, "identity") /\ r.identity # ""

\* one status run with each outcome: the CLI of one provider missing, a
\* query that exits 0 printing blanks, and an authenticated provider
C13_Witness ==
    /\ mpc = "done"
    /\ \E p \in Providers : CliOf(p) \notin installed /\ Has(task[p].res, "details")
    /\ \E p \in Providers :
          /\ StatusProbed(p) /\ task[p].code = 0 /\ task[p].out = <<" ", "\n">>
          /\ ~task[p].res.isAuthenticated
    /\ \E p \in Providers :
          task[p].res.isAuthenticated /\ task[p].res.identity = "me@corp.io"

\* the first thing a status operation does: spawn its identity query, or
\* fail to
FirstAttempt(i, p) ==
    /\ elog[i].k \in {"spawn", "nospawn"}
    /\ elog[i].p = p
    /\ elog[i].what = StatusQuery(p)

\* C14: in status, before any provider's query has exited the identity
\* queries of all three providers have been issued, and the provider lines
\* are printed only after all three status operations have returned.
C14_StatusProbesConcurrent ==
    /\ \A i \in DOMAIN elog :
          (elog[i].k = "exit" /\ elog[i].p \in Providers)
              => \A q \in Providers : \E j \in 1..(i - 1) : FirstAttempt(j, q)
    /\ \A i \in DOMAIN elog :
          (elog[i].k = "print" /\ elog[i].what = "Cloud Providers:")
              => \A q \in Providers :
                    \E j \in 1..(i - 1) : elog[j].k = "return" /\ elog[j].p = q

\* all three CLIs installed, the exits arriving in another order than the
\* spawns, and the provider lines printed
C14_Witness ==
    /\ {"gcloud", "aws", "az"} \subseteq installed
    /\ \E i \in DOMAIN elog : elog[i].k = "print" /\ elog[i].what = "Cloud Providers:"
    /\ \E i, j \in DOMAIN elog :
          /\ i < j
          /\ elog[i].k = "exit" /\ elog[i].p = "azure"
          /\ elog[j].k = "exit" /\ elog[j].p = "gcp"
                /\ elog[j].what = StatusQuery("gcp")

(***************************************************************************)
(* Properties of registry.                                                 *)
(***************************************************************************)
SummaryLines ==
    {"All 3 registries authenticated successfully!"}
        \cup {ToString(n) \o "/3 registries authenticated" : n \in 0..2}

\* the first thing the login operation of provider q did: spawn its first
\* subprocess, fail to spawn it, or return without needing one
LoginAttempt(i, q) ==
    elog[i].p = q /\ elog[i].k \in {"spawn", "nospawn", "return"}

\* C15: in registry all, before any subprocess of a login operation has
\* exited every provider's operation has been started; an error of one
\* operation stays inside it (no operation throws, the command does not
\* fail, every operation is waiting for a subprocess or has returned); and
\* the summary line is printed only after all three have returned.
C15_RegistryAllConcurrent ==
    (cmd # EmptyObj /\ cmd.name = "registry" /\ AllMode(cmd)) =>
        /\ \A i \in DOMAIN elog :
              (elog[i].k = "exit" /\ elog[i].p \in Providers)
                  => \A q \in Providers : \E j \in 1..(i - 1) : LoginAttempt(j, q)
        /\ mpc # "failed"
        /\ mpc # "start"
              => \A p \in Providers : task[p].pc \in RegistrySteps \cup {"returned"}
        /\ \A i \in DOMAIN elog :
              (elog[i].k = "print" /\ elog[i].what \in SummaryLines)
                  => \A q \in Providers :
                        \E j \in 1..(i - 1) : elog[j].k = "return" /\ elog[j].p = q

\* registry all with every option: the AWS operation failed first, the GCP
\* and Azure operations then ran to completion, and the summary counts two
C15_Witness ==
    /\ cmd # EmptyObj /\ cmd.name = "registry" /\ cmd.provider = "all"
    /\ mpc = "done"
    /\ ~task["aws"].res.ok /\ task["gcp"].res.ok /\ task["azure"].res.ok
    /\ elog[Len(elog)].what = "2/3 registries authenticated"
    /\ \E i, j, k \in DOMAIN elog :
          /\ i < j /\ i < k
          /\ elog[i].k = "exit" /\ elog[i].p = "aws" /\ elog[i].code # 0
          /\ elog[j].k = "exit" /\ elog[j].p = "gcp" /\ elog[j].code = 0
          /\ elog[k].k = "exit" /\ elog[k].p = "azure" /\ elog[k].code = 0

\* the subprocesses that make up a provider's registry login
RegistryLoginCommands ==
    {StepCommand(pc) : pc \in {"gcp_docker", "aws_token", "aws_id", "aws_docker",
                                "az_login"}}

\* C17: in a single-provider registry invocation, once a subprocess of the
\* provider's registry login has exited nonzero the command does not end
\* normally: an error reaches the dispatcher (Error: ..., exit code 1).
C17_RegistryFailureReachesDispatcher ==
    (/\ cmd # EmptyObj /\ cmd.name = "registry" /\ ~AllMode(cmd)
     /\ \E i \in DOMAIN elog :
           /\ elog[i].k = "exit" /\ elog[i].code # 0
           /\ elog[i].what \in RegistryLoginCommands)
        => /\ mpc \in {"single", "failed"}
           /\ task[cmd.provider].pc = "threw"
           /\ mpc = "failed" => merr # ""

\* registry azure, or the Azure operation of registry all, without a
\* registry name
AzureWithoutRegistry ==
    /\ cmd # EmptyObj /\ cmd.name = "registry"
    /\ AllMode(cmd) \/ cmd.provider = "azure"
    /\ ~Has(cmd.opts, "registry")

\* the registries the summary of registry all counts as authenticated
SummaryCount(line) ==
    CHOOSE n \in 0..3 :
        line = (IF n = 3 THEN "All 3 registries authenticated successfully!"
                ELSE ToString(n) \o "/3 registries authenticated")

\* C26: in registry azure and in the Azure operation of registry all, with
\* no registry name given, az acr login is never spawned nor attempted: the
\* only az subprocess is az acr list, the operation returns false (never
\* throws), and the summary of registry all counts at most the GCP and AWS
\* operations that returned true.
C26_AzureWithoutNameOnlyLists ==
    AzureWithoutRegistry =>
        /\ \A i \in DOMAIN elog :
              elog[i].p = "azure" /\ elog[i].k \in {"spawn", "nospawn", "exit"}
                  => elog[i].what = "az acr list"
        /\ \A i \in DOMAIN elog : elog[i].what # "Authenticated to ACR"
        /\ task["azure"].pc \in {"idle", "az_list", "returned"}
        /\ task["azure"].pc = "returned" => ~task["azure"].res.ok
        /\ \A i \in DOMAIN elog :
              (elog[i].k = "print" /\ elog[i].what \in SummaryLines)
                  => SummaryCount(elog[i].what)
                        = Cardinality({p \in {"gcp", "aws"} : task[p].res.ok})

\* registry all with region and project but no registry name: az acr list
\* exited 0, the GCP and AWS logins succeeded, and the summary counts two
C26_Witness ==
    /\ AzureWithoutRegistry /\ AllMode(cmd)
    /\ mpc = "done"
    /\ task["gcp"].res.ok /\ task["aws"].res.ok
    /\ elog[Len(elog)].what = "2/3 registries authenticated"
    /\ \E i \in DOMAIN elog :
          elog[i] = ExitEvent("azure", "az acr list", 0)
    /\ \E i \in DOMAIN elog :
          elog[i] = LineEvent("Use --registry <name> to login to a specific registry.")

(***************************************************************************)
(* Properties of clean.                                                    *)
(***************************************************************************)
CleanAll == cmd # EmptyObj /\ cmd.name = "clean" /\ cmd.all /\ cmd.provider = ""

\* the cleanup of q issued a subprocess, or failed to
CleanAttempt(i, q) == elog[i].p = q /\ elog[i].k \in {"spawn", "nospawn"}

CleanReturned(i, q) == elog[i].k = "return" /\ elog[i].p = q

DoneAfterAllThree ==
    \A i \in DOMAIN elog :
        (elog[i].k = "print" /\ elog[i].what = "Done.")
            => \A q \in Providers : \E j \in 1..(i - 1) : CleanReturned(j, q)

\* C16 as claimed: in clean --all the first subprocess of each of the three
\* cleanups has been issued before any one of the three cleanups completes,
\* and the Done line is printed only after all three have finished.
C16_Original ==
    CleanAll =>
        /\ \A i \in DOMAIN elog :
              (\E p \in Providers : CleanReturned(i, p))
                  => \A q \in Providers : \E j \in 1..(i - 1) : CleanAttempt(j, q)
        /\ DoneAfterAllThree

\* C16: in clean --all the three cleanups run one after the other, GCP,
\* then AWS, then Azure: no subprocess of a cleanup is issued before the
\* cleanup ahead of it has returned; the Done line is printed only after
\* all three have finished.
C16_CleanAllInOrder ==
    CleanAll =>
        /\ \A i \in DOMAIN elog :
              /\ CleanAttempt(i, "aws") => \E j \in 1..(i - 1) : CleanReturned(j, "gcp")
              /\ CleanAttempt(i, "azure") => \E j \in 1..(i - 1) : CleanReturned(j, "aws")
        /\ DoneAfterAllThree

\* clean --all has revoked two GCP accounts, logged out of AWS and Azure,
\* removed a context and printed Done
C16_Witness ==
    /\ CleanAll
    /\ mpc = "done"
    /\ elog[Len(elog)].what = "Done."
    /\ Cardinality({i \in DOMAIN elog :
                       elog[i].k = "exit" /\ elog[i].what = "gcloud auth revoke"}) = 2
    /\ \E i \in DOMAIN elog : elog[i].k = "exit" /\ elog[i].what = "az logout"
    /\ \E i \in DOMAIN elog :
          elog[i].k = "exit" /\ elog[i].what = "kubectl config delete-cluster"


\* the providers whose cleanup issued a subprocess, or failed to
Touched == {p \in Providers : \E i \in DOMAIN elog : CleanAttempt(i, p)}

\* the providers clean was asked for
AskedFor(c) ==
    IF c.provider # "" THEN {c.provider} ELSE IF c.all THEN Providers ELSE {}

\* the providers named on the command line, and whether --all is on it
TypedProviders == {p \in Providers : \E i \in DOMAIN cmd.typed : cmd.typed[i] = p}
TypedAll == \E i \in DOMAIN cmd.typed : cmd.typed[i] = "--all"

\* the providers the command line asks clean for
TypedFor ==
    IF TypedProviders # {} THEN TypedProviders ELSE IF TypedAll THEN Providers ELSE {}

\* clean has ended: it printed Done, or an error left cleanCommand
CleanOver == cmd # EmptyObj /\ cmd.name = "clean" /\ mpc \in {"done", "failed"}

\* C28: clean always ends by clearing the kubectl contexts and touches only
\* the providers it was asked for: none with no provider and no --all, the
\* given provider alone with a provider argument (also when --all is given
\* as well), all three with --all and no provider; in each mode the kubectl
\* context cleanup runs after the provider cleanups.
C28_CleanAsAsked ==
    (cmd # EmptyObj /\ cmd.name = "clean") =>
        /\ Touched \subseteq TypedFor
        /\ \A i \in DOMAIN elog :
              CleanAttempt(i, "kubectl") =>
                  /\ \A q \in TypedFor : \E j \in 1..(i - 1) : CleanReturned(j, q)
                  /\ \A j \in (i + 1)..Len(elog) : elog[j].p \notin Providers
        /\ CleanOver =>
              /\ Touched = TypedFor
              /\ \E i \in DOMAIN elog :
                    /\ CleanReturned(i, "kubectl")
                    /\ \A j \in (i + 1)..Len(elog) : elog[j].k = "print"

\* what holds of cleanCommand for the options it receives: it touches only
\* the providers of its options, issues the kubectl cleanup after their
\* cleanups have returned, and ends either with the kubectl contexts cleared
\* and Done printed or on a command line tool that could not be started
CleanTouchesItsOptions ==
    (cmd # EmptyObj /\ cmd.name = "clean") =>
        /\ Touched \subseteq AskedFor(cmd)
        /\ \A i \in DOMAIN elog :
              CleanAttempt(i, "kubectl") =>
                  /\ \A q \in AskedFor(cmd) : \E j \in 1..(i - 1) : CleanReturned(j, q)
                  /\ \A j \in (i + 1)..Len(elog) : elog[j].p \notin Providers
        /\ mpc = "done" =>
              /\ Touched = AskedFor(cmd)
              /\ \E i \in DOMAIN elog :
                    /\ CleanReturned(i, "kubectl")
                    /\ \A j \in (i + 1)..Len(elog) : elog[j].k = "print"
              /\ elog[Len(elog)] = LineEvent("Done.")
        /\ mpc = "failed" => elog[Len(elog)].k = "nospawn"

\* clean --all without gcloud installed has ended on the failed start of
\* gcloud: no AWS or Azure logout and no kubectl cleanup was issued
CleanAllStopsAtGcloud ==
    /\ CleanOver /\ cmd.typed = <<"--all">> /\ "gcloud" \notin installed
    /\ mpc = "failed"
    /\ Touched = {"gcp"}
    /\ \A i \in DOMAIN elog : ~CleanAttempt(i, "kubectl")

\* clean --all aws has printed Done after the kubectl cleanup alone
CleanAllAwsSkipsAws ==
    /\ CleanOver /\ cmd.typed = <<"--all", "aws">>
    /\ mpc = "done"
    /\ ~cmd.all /\ cmd.provider = ""
    /\ Touched = {}

(***************************************************************************)
(* Properties of the error classifier.                                     *)
(***************************************************************************)

\* word w is word l (given in lower case) up to the case of its letters
SameLetters(w, l) ==
    \/ w = l
    \/ l \in DOMAIN UpperCase /\ w = UpperCase[l]
    \/ w \in DOMAIN MixedCase /\ MixedCase[w] = l

\* the text contains the phrase, whatever the case of either's letters
Mentions(text, phrase) ==
    \E i \in 0..(Len(text) - Len(phrase)) :
        \A j \in 1..Len(phrase) : SameLetters(text[i + j], phrase[j])

\* the patterns in the order they are declared; a pattern is a set of
\* alternatives, an alternative a set of phrases that must all be mentioned
DeclaredPatterns(p) ==
    CASE p = "gcp" ->
           << [any |-> {{<<"reauthentication", "failed">>},
                        {<<"there", "was", "a", "problem", "refreshing", "your",
                           "current", "auth", "tokens">>},
                        {<<"invalid", "credentials">>},
                        {<<"token", "expired">>}},
               message |-> "GCP authentication failed or expired"],
              [any |-> {{<<"permission", "denied">>}, {<<"insufficient", "permissions">>}},
               message |-> "Insufficient GCP permissions"],
              [any |-> {{<<"not", "found">>, <<"project">>}, {<<"not", "found">>, <<"cluster">>}},
               message |-> "Project or cluster not found"],
              [any |-> {{<<"not", "found">>, <<"region">>}, {<<"not", "found">>, <<"zone">>}},
               message |-> "Region or zone not found"] >>
      [] p = "aws" ->
           << [any |-> {{<<"the", "sso", "session", "associated", "with", "this",
                           "profile", "has", "expired">>},
                        {<<"sso", "session", "has", "expired">>},
                        {<<"error", "validating", "provider">>}},
               message |-> "AWS SSO session expired"],
              [any |-> {{<<"profile">>, <<"does", "not", "exist">>}},
               message |-> "AWS profile not found"],
              [any |-> {{<<"access", "denied">>}, {<<"unauthorized">>}},
               message |-> "AWS access denied"],
              [any |-> {{<<"not", "found">>, <<"cluster">>}},
               message |-> "EKS cluster not found"] >>
      [] p = "azure" ->
           << [any |-> {{<<"please", "run">>, <<"az", "login">>}},
               message |-> "Azure not authenticated"],
              [any |-> {{<<"subscription">>, <<"not", "found">>},
                        {<<"subscription">>, <<"not", "exist">>}},
               message |-> "Azure subscription not found"],
              [any |-> {{<<"permission", "denied">>}, {<<"authorization", "failed">>}},
               message |-> "Azure permission denied"],
              [any |-> {{<<"not", "found">>, <<"cluster">>}},
               message |-> "AKS cluster not found"] >>

Matching(p, text) ==
    {i \in DOMAIN DeclaredPatterns(p) :
        \E alt \in DeclaredPatterns(p)[i].any : \A ph \in alt : Mentions(text, ph)}

ClassifiedInput == input # EmptyObj /\ input.fn = "classify" /\ output # EmptyObj

HasUpperCase(text) == \E i \in DOMAIN text : \E l \in DOMAIN UpperCase : text[i] = UpperCase[l]

\* C18: the classifier of each provider answers with the first declared
\* pattern the text matches, whatever the case of the text's letters, and
\* with the first line of the text when none matches; an AWS text that holds
\* the expired-SSO-session sentence is answered with a message containing
\* "SSO session expired" and a hint containing "aws sso login".
C18_FirstMatchWinsAnyCase ==
    ClassifiedInput =>
        LET m == Matching(input.provider, input.stderr)
        IN  /\ m # {} =>
                 LET first == CHOOSE i \in m : \A j \in m : i <= j
                 IN  output.message = DeclaredPatterns(input.provider)[first].message
            /\ m = {} => output = [message |-> ExtractFirstLine(input.stderr)]
            /\ (/\ input.provider = "aws"
                /\ Mentions(input.stderr, <<"the", "sso", "session", "associated", "with",
                                            "this", "profile", "has", "expired">>))
                 => /\ output.message = "AWS SSO session expired"
                    /\ output.hint = "Run: aws sso login --profile PROFILE_NAME"

\* C18 witness: an AWS text that holds the SSO sentence in upper case
\* together with the phrases of a later pattern has been classified as an
\* expired SSO session.
C18_Witness ==
    /\ ClassifiedInput
    /\ input.provider = "aws"
    /\ HasUpperCase(input.stderr)
    /\ Mentions(input.stderr, <<"the", "sso", "session", "associated", "with", "this",
                                "profile", "has", "expired">>)
    /\ ~Includes(input.stderr, <<"the", "sso", "session", "associated", "with", "this",
                                 "profile", "has", "expired">>)
    /\ Cardinality(Matching("aws", input.stderr)) >= 2
    /\ output.message = "AWS SSO session expired"


\* a classified text that matches none of its provider's patterns
UnmatchedInput == ClassifiedInput /\ Matching(input.provider, input.stderr) = {}

\* the words of the text before its first line break
RawFirstLine(text) ==
    LET breaks == {i \in DOMAIN text : text[i] = "\n"}
        end == IF breaks = {} THEN Len(text) + 1
               ELSE CHOOSE i \in breaks : \A j \in breaks : i <= j
    IN  SubSeq(text, 1, end - 1)

\* the text without the white space before its first and after its last word
Inner(text) ==
    LET words == {i \in DOMAIN text : ~Blank(text[i])}
    IN  IF words = {} THEN <<>>
        ELSE SubSeq(text, CHOOSE i \in words : \A j \in words : i <= j,
                          CHOOSE i \in words : \A j \in words : i >= j)

\* C27 as stated: an unmatched text is answered with no hint and with the
\* first line of the text as it was given, a text of white space only with
\* some message that is not empty.
C27_Original ==
    UnmatchedInput =>
        /\ Inner(input.stderr) # <<>>
              => output.message = JoinWords(RawFirstLine(input.stderr))
        /\ ~Has(output, "hint")
        /\ output.message # ""

\* C27: an unmatched text is answered with no hint and with the first line
\* of the text once the white space around the whole text is removed, or
\* with "Unknown error" when nothing remains; the message is never empty,
\* and it is the first line of the text as given whenever that line starts
\* and ends with a character that is not white space.
C27_FirstLineOfTrimmedText ==
    UnmatchedInput =>
        LET line == RawFirstLine(Inner(input.stderr))
            raw == RawFirstLine(input.stderr)
        IN  /\ output.message = (IF line = <<>> THEN "Unknown error" ELSE JoinWords(line))
            /\ ~Has(output, "hint")
            /\ output.message # ""
            /\ (raw # <<>> /\ ~Blank(raw[1]) /\ ~Blank(raw[Len(raw)]))
                  => output.message = JoinWords(raw)

\* an unmatched text whose first line ends in white space that the trim of
\* the whole text removes: the message is not the line as given
C27_TrailingBlankCut ==
    /\ UnmatchedInput
    /\ input.stderr \in {<<"Error:", " ", "\n">>, <<"Error:", "\r", "\n">>}
    /\ output = [message |-> "Error:"]
    /\ output.message # JoinWords(RawFirstLine(input.stderr))

\* C27 witness: a text of an empty line, "Error:" and a line break, matching
\* no pattern, was answered with "Error:"
C27_Witness ==
    /\ UnmatchedInput
    /\ input.stderr = <<"\n", "Error:", "\n">>
    /\ output = [message |-> "Error:"]


(***************************************************************************)
(* Properties of the update command.                                       *)
(***************************************************************************)

\* the number a component text of one or two digits stands for
Stands(text) == IF Len(text) = 1 THEN text[1] ELSE 10 * text[1] + text[2]

\* component i of the version as a number, 0 when the version has none
Component(version, i) == IF i <= Len(version) THEN Stands(version[i]) ELSE 0

\* version a is before version b: at the first component where they differ,
\* a's is the smaller number
Before(a, b) ==
    \E i \in 1..(Len(a) + Len(b)) :
        /\ Component(a, i) < Component(b, i)
        /\ \A j \in 1..(i - 1) : Component(a, j) = Component(b, j)

UpdateChecked ==
    /\ input # EmptyObj
    /\ input.fn = "update"
    /\ input.release.fetched
    /\ output # EmptyObj

\* C19: the versions are compared component by component as numbers, a
\* missing component counting as 0, and compare(a, b) = -compare(b, a);
\* without --force an equal version installs nothing and says so, an older
\* current version is updated, a newer one is warned about and nothing is
\* installed.
C19_VersionsComparedAsIntegers ==
    UpdateChecked =>
        LET a == input.current
            b == LatestVersion(input.release.tag_name)
        IN  /\ compareVersions(a, b) = (IF Before(a, b) THEN -1
                                        ELSE IF Before(b, a) THEN 1 ELSE 0)
            /\ compareVersions(a, b) = -compareVersions(b, a)
            /\ ~input.force =>
                 /\ (~Before(a, b) /\ ~Before(b, a)) =>
                        /\ output.installed = "nothing"
                        /\ output.printed[Len(output.printed)] = "on the latest version"
                 /\ Before(a, b) => output.installed \in {"binary", "script"}
                 /\ Before(b, a) =>
                        /\ output.installed = "nothing"
                        /\ output.printed[Len(output.printed)] = "newer than latest release"

\* C19 witness: current version "9" against latest "10.0", which a
\* comparison of the texts would put the other way round, has been updated
\* without --force.
C19_Witness ==
    /\ UpdateChecked
    /\ ~input.force
    /\ input.current = << <<9>> >>
    /\ LatestVersion(input.release.tag_name) = << <<1, 0>>, <<0>> >>
    /\ output.installed = "binary"


(***************************************************************************)
(* Properties of the dispatcher.                                           *)
(***************************************************************************)

\* the commands of the CLI surface
CliSurface ==
    {"connect", "list", "status", "add", "remove", "import", "discover", "registry",
     "clean", "ai", "update", "uninstall", "version", "--version", "-v", "help",
     "--help", "-h"}

Exited == input # EmptyObj /\ input.fn = "main" /\ output # EmptyObj /\ output.pc = "exited"

UnknownCommand == input.command # "" /\ input.command \notin CliSurface

EndsAsUnknown ==
    /\ output.stderr = <<"Unknown command: \"" \o input.command \o "\"">>
    /\ output.stdout = <<"HELP">>
    /\ output.code = 1

EndsAsError ==
    /\ output.stderr = <<"Error: " \o output.thrown>>
    /\ output.code = 1

EndsAsSuccess ==
    /\ output.stderr = <<>>
    /\ output.code = 0

\* C20: a process that has ended has ended in exactly one way: as an
\* unknown command (error on stderr, help on stdout, code 1) when the
\* command is none of the CLI's; with "Error: <message>" on stderr and code
\* 1 when an error was raised under the dispatcher's try block; with code 0
\* and nothing on stderr otherwise.  An error a handler raised is never
\* followed by code 0.
C20_EveryInvocationEnds ==
    Exited =>
        /\ UnknownCommand => EndsAsUnknown /\ output.thrown = ""
        /\ (~UnknownCommand /\ output.thrown # "") => EndsAsError
        /\ (~UnknownCommand /\ output.thrown = "") => EndsAsSuccess
        /\ output.code \in {0, 1}
        /\ (output.called # "" /\ output.thrown # "") => output.code = 1

\* C20 witness: the handler of a known command was called, raised, and the
\* process ended with the error on stderr and code 1.
C20_Witness ==
    /\ Exited
    /\ input.command = "connect"
    /\ output.called = "connectCommand"
    /\ output.thrown \in HandlerErrors
    /\ EndsAsError


\* the subcommand was typed with --help or -h among its arguments
HelpAsked ==
    /\ input # EmptyObj
    /\ input.fn = "main"
    /\ input.build = "part_000"
    /\ input.command \in DOMAIN CommandHelp
    /\ \E i \in DOMAIN input.rest : input.rest[i] \in {"--help", "-h"}

\* C21: a subcommand typed with --help or -h prints its help text and does
\* nothing else: no handler is called (so the store is not read and no
\* subprocess is spawned) and no argument check raises an error.
C21_HelpOnly ==
    (HelpAsked /\ output # EmptyObj) =>
        /\ output.pc = "exited"
        /\ output.stdout = <<CommandHelp[input.command]>>
        /\ output.called = ""
        /\ output.thrown = ""
        /\ output.code = 0

(***************************************************************************)
(* Properties of racing store commands.                                    *)
(***************************************************************************)
RaceOver == mpc = "race" /\ \A p \in Procs : task[p].pc = "done"

SaveEvents == SelectSeq(elog, LAMBDA e : e.k = "save")

StoredNames == [i \in DOMAIN file.clusters |-> ParseObj(file.clusters[i])["name"]]

\* C22: once both processes have ended and one of them has saved, the
\* store holds exactly the list of the last save, which is the list its
\* process computed from the file it had read; the store never holds a name
\* twice, and it is never left with a text that is not a whole list.
C22_LastSaveWins ==
    /\ (RaceOver /\ SaveEvents # <<>>) =>
          LET e == SaveEvents[Len(SaveEvents)]
          IN  /\ file = e.what
              /\ e.what = CommandResult(cmd[e.p], task[e.p].snapshot).file
    /\ mpc = "race" =>
          \A i, j \in DOMAIN StoredNames : StoredNames[i] = StoredNames[j] => i = j
    /\ RaceOver => ~Torn(file)

\* the import has saved its records and ended, and the store is the empty
\* list that the failed remove created afterwards
SavedThenWiped ==
    /\ RaceOver
    /\ \E p, q \in Procs :
          /\ cmd[p].op = "import" /\ task[p].err = ""
          /\ cmd[q].op = "remove" /\ task[q].err = "not found"
          /\ SaveEvents = <<SaveEvent(p, task[p].pending)>>
          /\ task[p].pending.clusters # <<>>
          /\ elog[Len(elog)] = CreateEvent(q, EnsureConfigFile(NoFile))
    /\ file = EnsureConfigFile(NoFile)

\* a load fell between the opening and the end of another process's write
\* and found no JSON document
LoadFoundTornFile ==
    \E p \in Procs : task[p].pc = "done" /\ task[p].err = "JSON Parse error"


(***************************************************************************)
(* Properties of connect's lookup and dispatch.                            *)
(***************************************************************************)

\* the commands each adapter issues
AdapterCommands(p) ==
    CASE p = "gcp" ->
           {"gcloud auth print-access-token", "gcloud auth login",
            "gcloud auth login --account", "gcloud config get-value account",
            "gcloud config set account", "gcloud config set project",
            "gcloud container clusters get-credentials",
            "gcloud config get-value project"}
      [] p = "aws" ->
           {"aws sts get-caller-identity", "aws sso login --profile",
            "aws eks update-kubeconfig", "aws eks update-kubeconfig --role-arn"}
      [] p = "azure" ->
           {"az account show --query name", "az login", "az account set --subscription",
            "az aks show", "az aks get-credentials", "az account show --query tenantId"}

KubectlCommands == {"kubectl get nodes --no-headers", "kubectl config current-context"}

\* the names of the store, as a not-found error of up to two names lists them
ListedNames ==
    IF Len(Store) = 0 THEN "(none configured)"
    ELSE IF Len(Store) = 1 THEN Store[1]["name"]
    ELSE Store[1]["name"] \o ", " \o Store[2]["name"]

Looked == cpc \notin {"idle", "start"}

\* C23: connect with a name no record has, letter for letter, fails with
\* the not-found error that lists the store's names, or "(none configured)",
\* and spawns nothing; connect with the name of a record runs the commands
\* of that record's provider and of kubectl only.
C23_LookupThenDispatch ==
    Looked =>
        IF \A i \in DOMAIN Store : Store[i]["name"] # cname
        THEN /\ cpc = "failed"
             /\ cerr = "Cluster \"" \o cname \o "\" not found. Available: " \o ListedNames
             /\ clog = <<>>
        ELSE /\ \E i \in DOMAIN Store : Store[i] = cluster /\ cluster["name"] = cname
             /\ \A i \in DOMAIN clog :
                    clog[i].k = "run" =>
                       clog[i].what \in AdapterCommands(cluster["provider"])
                                           \cup KubectlCommands

\* C23 witness: "N1" was looked up in a store of two records, one of them
\* "n1", and was not found.
C23_Witness ==
    /\ cpc = "failed"
    /\ cname = "N1"
    /\ Len(Store) = 2
    /\ cerr = "Cluster \"N1\" not found. Available: n2, n1"
    /\ clog = <<>>



(***************************************************************************)
(* Order and frame of the store.                                           *)
(***************************************************************************)
StoreNames == [i \in DOMAIN Store |-> Store[i]["name"]]

\* the store before is the beginning of the store
KeepsBefore ==
    /\ Len(Store) >= Len(StoreBefore)
    /\ \A i \in DOMAIN StoreBefore : Store[i] = StoreBefore[i]

\* C24: a successful add leaves every record where it was and puts one
\* record, of the given name, at the end; a successful import leaves every
\* record where it was and puts the new names at the end in the order of the
\* file; a successful remove takes out the one record of the given name and
\* leaves the others as they were and in their order.
C24_OrderAndFrame ==
    /\ (last.op = "add" /\ last.err = "") =>
          /\ KeepsBefore
          /\ Len(Store) = Len(StoreBefore) + 1
          /\ Store[Len(Store)]["name"] = last.name
    /\ (last.op = "import" /\ last.err = "") =>
          /\ KeepsBefore
          /\ SubSeq(StoreNames, Len(StoreBefore) + 1, Len(Store)) =
                Pick(DocNames, LAMBDA i : /\ DocNames[i] \notin NamesBefore
                                          /\ \A j \in 1..(i - 1) : DocNames[j] # DocNames[i])
    /\ (last.op = "remove" /\ last.err = "") =>
          \E i \in DOMAIN StoreBefore :
             /\ StoreBefore[i]["name"] = last.name
             /\ Store = SubSeq(StoreBefore, 1, i - 1)
                            \o SubSeq(StoreBefore, i + 1, Len(StoreBefore))

\* C24 witness: the first of two records has been removed and the second
\* is all the store holds.
C24_Witness ==
    /\ last.op = "remove" /\ last.err = ""
    /\ Len(StoreBefore) = 2
    /\ StoreBefore[1]["name"] = last.name
    /\ Store = <<StoreBefore[2]>>

(***************************************************************************)
(* The error of a failed credential fetch.                                 *)
(***************************************************************************)
FetchFailed ==
    /\ cpc = "failed"
    /\ clog # <<>>
    /\ Ran(Len(clog), CredentialFetchCommands)
    /\ clog[Len(clog)].code # 0

\* C25: when the credential fetch has exited nonzero, the error of each
\* provider's adapter is the bare message with the exit code in it, not a
\* classification of stderr.
C25_FetchErrorCarriesExitCode ==
    FetchFailed =>
        \E what \in {"gcloud get-credentials", "aws eks update-kubeconfig",
                      "az aks get-credentials"} :
            cerr = what \o " failed (exit " \o ToString(clog[Len(clog)].code) \o ")"

\* the steps of the log at which one of the commands was run
Runs(cmds) == {i \in DOMAIN clog : Ran(i, cmds)}

ConnectOver == cpc \in {"done", "failed"}

\* C29: in a run of connect the interactive login is launched at most once
\* and the credential fetch is issued at most once, whatever the record and
\* the exit codes; and when every subprocess exits, connect ends.
C29_NoRetry ==
    /\ [](Cardinality(Runs(LoginCommands)) <= 1
           /\ Cardinality(Runs(CredentialFetchCommands)) <= 1)
    /\ <>ConnectOver

\* connect has launched the login, gone on, and ended with an error when the
\* one credential fetch exited nonzero
C29_Witness ==
    /\ cpc = "failed"
    /\ \E i, j \in DOMAIN clog :
          /\ i < j /\ j = Len(clog)
          /\ Ran(i, LoginCommands)
          /\ Ran(j, CredentialFetchCommands) /\ clog[j].code # 0

\* a GCP record with an account is being connected to
GcpWithAccount ==
    /\ cluster # EmptyObj /\ cluster["provider"] = "gcp" /\ Truthy(cluster, "account")

\* C30: in GCP connect for a record with an account, whenever the
\* credential fetch has been issued, the account config get-value printed
\* was the requested one, or config set account was issued before and
\* exited 0, or gcloud auth login --account was launched before; and a
\* config set account that exits nonzero ends connect with an error there,
\* before the project is set.
C30_AccountActivatedBeforeFetch ==
    GcpWithAccount =>
        /\ \A i \in DOMAIN clog :
              Ran(i, {"gcloud container clusters get-credentials"}) =>
                  \/ Has(cres, "current") /\ cres["current"] = cluster["account"]
                  \/ \E j \in 1..(i - 1) :
                         Ran(j, {"gcloud config set account"}) /\ clog[j].code = 0
                  \/ \E j \in 1..(i - 1) : Ran(j, {"gcloud auth login --account"})
        /\ \A j \in DOMAIN clog :
              (Ran(j, {"gcloud config set account"}) /\ clog[j].code # 0) =>
                  /\ j = Len(clog)
                  /\ cpc = "failed"
                  /\ cerr = "Failed to switch gcloud account"

\* another account was active, config set account exited 0, the token of
\* the requested account was valid and the credentials were fetched
C30_Witness ==
    /\ GcpWithAccount
    /\ Has(cres, "current") /\ cres["current"] = "other@corp.io"
    /\ Runs(LoginCommands) = {}
    /\ \E i, j \in DOMAIN clog :
          /\ j < i
          /\ clog[j] = RunEvent("gcloud config set account", 0)
          /\ clog[i] = RunEvent("gcloud container clusters get-credentials", 0)
=============================================================================
